---- MODULE Spec2Model ----
(***************************************************************************)
(* Verification model of the botplayer playback core:                      *)
(*   - PlayQueue / PlayerState            (src/core/models.py)             *)
(*   - BotPlayerCore playback control     (src/core/player.py)             *)
(*   - BotPlayerPlugin commands, the voice completion callback and the     *)
(*     auto-advance threads it spawns     (src/main.py)                    *)
(*                                                                         *)
(* Indices are 0-based as in the Python source; TLA+ sequences are 1-based,*)
(* so songs[i + 1] is the Python songs[i].                                 *)
(***************************************************************************)
EXTENDS Integers, Sequences, FiniteSets, Bags, TLC

\* ------------------------------------------------------------------ bounds
\* Longest queue explored by the queue-only specifications.
MaxLen == 3
\* Longest queue explored by the plugin (threads and commands) specification.
MaxQueue == 2
\* Most threads alive at one time beside the main loop: voice threads running
\* a completion callback plus the threads those callbacks spawned.
MaxThreads == 2
\* Most consecutive advances counted by the advance specification.
MaxSteps == 4

\* ------------------------------------------------------------- value sets
SongIds == {"a", "b", "c"}
QueueSongs == {"a", "b"}
PluginSongs == {"a", "b"}
Guilds == {"g1", "g2"}
NoSong == "none"
NoGuild == "no_guild"

\* PlayMode and PlayerStatus enums
SEQUENTIAL == "sequential"
SHUFFLE == "shuffle"
REPEAT_ALL == "repeat_all"
REPEAT_ONE == "repeat_one"
PlayModes == {SEQUENTIAL, SHUFFLE, REPEAT_ALL, REPEAT_ONE}

IDLE == "idle"
PLAYING == "playing"
PAUSED == "paused"
ERROR == "error"

VARIABLES
    queue,              \* PlayerState.queue : PlayQueue record
    status,             \* PlayerState.status
    current_song,       \* PlayerState.current_song
    is_processing_next, \* BotPlayerPlugin._is_processing_next
    playing_lock,       \* BotPlayerPlugin._playing_lock is held
    voice,              \* per guild: the voice client is playing
    callbacks,          \* after_playing calls running on voice threads (a bag)
    advances,           \* threads spawned by handle_song_finished_sync (a bag)
    last_stop,          \* probe: guild of the last completed stop, until a play
    probe,              \* probe of the advance specification
    cache               \* AudioCacheManager: table audio_cache, the cache directory, the time

queueVars == <<queue>>
playerVars == <<status, current_song>>
pluginVars == <<is_processing_next, playing_lock, voice, callbacks, advances>>
vars == <<queue, status, current_song, is_processing_next, playing_lock, voice,
          callbacks, advances, last_stop, probe, cache>>

\* ---------------------------------------------------------------- helpers
Min(a, b) == IF a < b THEN a ELSE b

Range(s) == {s[i] : i \in 1..Len(s)}

\* s without its element at 1-based position k
RemoveAt(s, k) == [i \in 1..(Len(s) - 1) |-> IF i < k THEN s[i] ELSE s[i + 1]]

\* s with x inserted so that it lands at 1-based position k
InsertAt(s, k, x) ==
    [i \in 1..(Len(s) + 1) |-> IF i < k THEN s[i] ELSE IF i = k THEN x ELSE s[i - 1]]

\* the last n elements of s (all of s when it is shorter): Python s[-n:], n > 0
LastN(s, n) == IF Len(s) <= n THEN s ELSE SubSeq(s, Len(s) - n + 1, Len(s))

\* all sequences over S of length at most n
SeqsUpTo(S, n) == UNION {[1..k -> S] : k \in 0..n}

\* all rearrangements of s
Rearrangements(s) ==
    {[i \in 1..Len(s) |-> s[p[i]]] :
        p \in {f \in [1..Len(s) -> 1..Len(s)] : \A i, j \in 1..Len(s) : f[i] = f[j] => i = j}}

\* 0-based index of the first occurrence of x in s: Python s.index(x)
IndexOf(s, x) == (CHOOSE i \in 1..Len(s) : s[i] = x /\ \A j \in 1..(i - 1) : s[j] # x) - 1

\* Threads that differ in nothing are interchangeable, so each kind of thread
\* is kept as a bag of thread states.
BagAdd(b, x) == b (+) SetToBag({x})
BagRemove(b, x) == b (-) SetToBag({x})
BagMove(b, x, y) == BagAdd(BagRemove(b, x), y)
\* the number of threads in the bag
BagSize(b) == BagCardinality(b)

\* A completion callback on a voice thread: after_playing(error=None) running
\* handle_song_finished_sync for guild g. cause is a probe (why the track
\* stopped); the code does not know it.
Causes == {"ended", "skip", "other"}
CallbackTypes == [g : Guilds, cause : Causes, pc : {"check", "set"}]

\* A thread started by handle_song_finished_sync for guild g, running
\* play_next_song_safe ("next") or replay_current_song_safe ("replay")
AdvanceTypes == [g : Guilds, kind : {"next", "replay"},
                 pc : {"acquire", "select", "fetch", "finish"}]

\* ------------------------------------------------------- PlayQueue (models.py)
\* PlayQueue() as constructed by the dataclass defaults
EmptyQueue ==
    [songs |-> <<>>, current_index |-> 0, play_mode |-> SEQUENTIAL, shuffle_history |-> <<>>]

\* PlayQueue.get_current_song
get_current_song(q) ==
    IF 0 <= q.current_index /\ q.current_index < Len(q.songs)
    THEN q.songs[q.current_index + 1]
    ELSE NoSong

\* list.insert(position, x): negative positions count from the end, then clamp
InsertPos(len, position) ==
    LET p == IF position < 0 THEN position + len ELSE position
    IN IF p < 0 THEN 0 ELSE IF p > len THEN len ELSE p

\* PlayQueue.add_song with position=None: songs.append(song)
add_song(q, song) == [q EXCEPT !.songs = Append(q.songs, song)]

\* PlayQueue.add_song with a position: songs.insert(position, song)
add_song_at(q, song, position) ==
    [q EXCEPT !.songs = InsertAt(q.songs, InsertPos(Len(q.songs), position) + 1, song)]

\* PlayQueue.remove_song: the queue afterwards (unchanged when index is out of range)
remove_song(q, index) ==
    IF 0 <= index /\ index < Len(q.songs)
    THEN LET rest == RemoveAt(q.songs, index + 1)
         IN [q EXCEPT !.songs = rest,
                      !.current_index =
                          IF index < q.current_index THEN q.current_index - 1
                          ELSE IF index = q.current_index /\ q.current_index >= Len(rest)
                               THEN 0
                               ELSE q.current_index]
    ELSE q

\* len(recent) in _next_shuffle: recent = shuffle_history[-len(songs)//3:], and
\* Python evaluates (-len)//3 = -ceil(len/3)
RecentCount(len) == (len + 2) \div 3

\* the candidates as they would be if the current index were not taken out
ShuffleCandidates_with_current(q) ==
    LET n == Len(q.songs)
        all == 0..(n - 1)
        recent == Range(LastN(q.shuffle_history, RecentCount(n)))
        filtered == IF Len(q.shuffle_history) >= n \div 2 THEN all \ recent ELSE all
    IN IF filtered = {} THEN all ELSE filtered

\* the candidate indices random.choice draws from in _next_shuffle
ShuffleCandidates(q) ==
    LET n == Len(q.songs)
        all == 0..(n - 1)
        recent == Range(LastN(q.shuffle_history, RecentCount(n)))
        filtered == IF Len(q.shuffle_history) >= n \div 2 THEN all \ recent ELSE all
        avail == IF filtered = {} THEN all ELSE filtered
    IN avail \ {q.current_index}

\* shuffle_history after appending the chosen index and trimming to len(songs)
PushHistory(q, chosen) ==
    LET h == Append(q.shuffle_history, chosen)
    IN IF Len(h) > Len(q.songs) THEN LastN(h, Len(q.songs)) ELSE h

\* PlayQueue._next_shuffle: every [queue, song] outcome of the random choice
next_shuffle(q) ==
    IF Len(q.songs) <= 1 \/ ShuffleCandidates(q) = {}
    THEN {[queue |-> q, song |-> get_current_song(q)]}
    ELSE {LET q2 == [q EXCEPT !.current_index = c, !.shuffle_history = PushHistory(q, c)]
          IN [queue |-> q2, song |-> get_current_song(q2)] : c \in ShuffleCandidates(q)}

\* next_song in SEQUENTIAL mode as it would be if the index moved past the last
\* song when the queue is exhausted
next_sequential_past_end(q) ==
    LET q2 == [q EXCEPT !.current_index = q.current_index + 1]
    IN {[queue |-> q2, song |-> get_current_song(q2)]}

\* PlayQueue.next_song in SEQUENTIAL mode
next_sequential(q) ==
    IF q.current_index + 1 < Len(q.songs)
    THEN LET q2 == [q EXCEPT !.current_index = q.current_index + 1]
         IN {[queue |-> q2, song |-> get_current_song(q2)]}
    ELSE {[queue |-> q, song |-> NoSong]}

\* next_song in REPEAT_ALL mode as it would be without the wrap to index 0
next_repeat_all_no_wrap(q) ==
    LET q2 == [q EXCEPT !.current_index = Min(q.current_index + 1, Len(q.songs) - 1)]
    IN {[queue |-> q2, song |-> get_current_song(q2)]}

\* PlayQueue.next_song in REPEAT_ALL mode
next_repeat_all(q) ==
    LET q2 == [q EXCEPT !.current_index = (q.current_index + 1) % Len(q.songs)]
    IN {[queue |-> q2, song |-> get_current_song(q2)]}

\* PlayQueue.next_song in REPEAT_ONE mode
next_repeat_one(q) == {[queue |-> q, song |-> get_current_song(q)]}

\* PlayQueue.next_song: the set of possible [queue, song] results
next_song(q) ==
    IF q.songs = <<>> THEN {[queue |-> q, song |-> NoSong]}
    ELSE IF q.play_mode = REPEAT_ONE THEN next_repeat_one(q)
    ELSE IF q.play_mode = SHUFFLE THEN next_shuffle(q)
    ELSE IF q.play_mode = SEQUENTIAL THEN next_sequential(q)
    ELSE next_repeat_all(q)

\* PlayQueue.has_next_song
has_next_song(q) ==
    IF q.songs = <<>> THEN FALSE
    ELSE IF q.play_mode = REPEAT_ONE THEN TRUE
    ELSE IF q.play_mode = SHUFFLE THEN Len(q.songs) > 1
    ELSE IF q.play_mode = SEQUENTIAL THEN q.current_index + 1 < Len(q.songs)
    ELSE TRUE

\* PlayQueue._previous_shuffle
previous_shuffle(q) ==
    IF Len(q.shuffle_history) > 1
    THEN LET h == SubSeq(q.shuffle_history, 1, Len(q.shuffle_history) - 1)
             q2 == [q EXCEPT !.shuffle_history = h, !.current_index = h[Len(h)]]
         IN [queue |-> q2, song |-> get_current_song(q2)]
    ELSE [queue |-> q, song |-> get_current_song(q)]

\* PlayQueue.previous_song
previous_song(q) ==
    IF q.songs = <<>> THEN [queue |-> q, song |-> NoSong]
    ELSE IF q.play_mode = REPEAT_ONE THEN [queue |-> q, song |-> get_current_song(q)]
    ELSE IF q.play_mode = SHUFFLE THEN previous_shuffle(q)
    ELSE IF q.play_mode = SEQUENTIAL
         THEN IF q.current_index - 1 >= 0
              THEN LET q2 == [q EXCEPT !.current_index = q.current_index - 1]
                   IN [queue |-> q2, song |-> get_current_song(q2)]
              ELSE [queue |-> q, song |-> NoSong]
    ELSE LET q2 == [q EXCEPT !.current_index = (q.current_index - 1) % Len(q.songs)]
         IN [queue |-> q2, song |-> get_current_song(q2)]

\* PlayQueue.clear
clear(q) == [q EXCEPT !.songs = <<>>, !.current_index = 0, !.shuffle_history = <<>>]

\* PlayQueue.shuffle_all: every outcome of random.shuffle, the current song re-located
shuffle_all(q) ==
    IF q.songs = <<>> THEN {q}
    ELSE {IF get_current_song(q) # NoSong
          THEN [q EXCEPT !.songs = p, !.current_index = IndexOf(p, get_current_song(q))]
          ELSE [q EXCEPT !.songs = p] : p \in Rearrangements(q.songs)}

\* ------------------------------------------------- BotPlayerCore (player.py)
\* BotPlayerCore.stop leaves status IDLE and no current song (position is not modelled)
StoppedStatus == IDLE

\* ------------------------------------ AudioCacheManager (cache_manager.py)
\* (the class defines several methods more than once: the last definition of
\* a name is the one Python keeps, and the one modelled)
CacheTracks == {"t1", "t2", "t3", "t4", "t5"}
TrackOrder == <<"t1", "t2", "t3", "t4", "t5">>
NoFile == "no_file"

\* self.max_size, config 'min_access_interval', and os.path.getsize of a cached
\* file, in the units of the LRU example: three files exceed the budget
MaxSize == 100
MinAccessInterval == 0
\* the values of config 'min_access_interval' explored: the example's, and one
\* under which a file accessed one or two ticks ago is hot
MinAccessIntervals == {MinAccessInterval, 2}
FileSize == 40
\* target_size = int(self.max_size * 0.8)
TargetSize == (MaxSize * 8) \div 10

\* no row of table audio_cache for a song_id
NoRow == [file_path |-> NoFile, audio_hash |-> NoFile, reference_count |-> 0,
          last_accessed |-> 0]

\* What a download yields for each track, named after the first track that
\* yields the same bytes: tracks mapped to one name have one audio_hash. The
\* tracks are interchangeable, so the tracks sharing their bytes are taken
\* next to each other in TrackOrder
ContentMaps ==
    {m \in [CacheTracks -> CacheTracks] :
        /\ m[TrackOrder[1]] = TrackOrder[1]
        /\ \A i \in 2..Len(TrackOrder) :
              m[TrackOrder[i]] \in {TrackOrder[i], m[TrackOrder[i - 1]]}}

\* The event loops that call get_audio_file: the bot's main loop (commands) and
\* the loops run_async_task_with_lock creates, one per advance thread
Loops == {"main", "adv1", "adv2"}
NoLoop == "no_loop"
\* config 'max_concurrent_downloads', default 3
MaxConcurrentDownloads == 3
\* the values of the config explored
DownloadLimits == {1, MaxConcurrentDownloads}

\* the call of get_audio_file a loop is in: where it is (idle: none, or
\* returned), for which track, and what the last call returned
NoJob == [pc |-> "idle", track |-> NoFile, result |-> NoSong]

\* AudioCacheManager.__init__ on an empty directory: no row, no file in
\* cache_dir, no file in temp_dir = cache_dir / "temp" (temp holds the tracks
\* whose download left a file there). content is what the downloads will
\* yield, usable the tracks for which the extractor writes a file with one of
\* the suffixes _download_with_ytdlp looks for, now the time. max_downloads is
\* the config value; value, waiters and sem_loop are _download_semaphore: its
\* counter, the loops whose future is in its queue, and the loop it is bound to
EmptyCache ==
    [rows |-> [t \in CacheTracks |-> NoRow], files |-> {}, temp |-> {}, now |-> 0,
     content |-> [t \in CacheTracks |-> t], usable |-> CacheTracks,
     min_access_interval |-> MinAccessInterval,
     jobs |-> [l \in Loops |-> NoJob], max_downloads |-> MaxConcurrentDownloads,
     value |-> MaxConcurrentDownloads,
     waiters |-> <<>>, sem_loop |-> NoLoop]

\* the extractor's suffixes explored: usable for every track, or for every
\* track but the last
UsableSets == {CacheTracks, CacheTracks \ {TrackOrder[Len(TrackOrder)]}}

\* _get_cache_info(song_id) is not None
HasRow(c, t) == c.rows[t] # NoRow

\* the rows whose file_path is p
RowsAt(c, p) == {t \in CacheTracks : HasRow(c, t) /\ c.rows[t].file_path = p}

\* _get_total_cache_size: file_size summed over the DISTINCT file_path of the
\* table whose file exists
get_total_cache_size(c) == FileSize * Cardinality({p \in c.files : RowsAt(c, p) # {}})

\* DELETE FROM audio_cache WHERE file_path in paths
DeleteRowsAt(c, paths) ==
    [t \in CacheTracks |-> IF c.rows[t].file_path \in paths THEN NoRow ELSE c.rows[t]]

\* the loop of _cleanup_lru over the candidates from position k on: the paths
\* put into files_to_remove. last[p] is the last_accessed the query returned for p
RECURSIVE FilesToRemove(_, _, _, _, _)
FilesToRemove(c, order, last, k, total_size) ==
    IF k > Len(order) THEN {}
    ELSE LET file_path == order[k]
         IN IF file_path \notin c.files
            THEN {file_path} \cup FilesToRemove(c, order, last, k + 1, total_size)
            ELSE IF c.now - last[file_path] > c.min_access_interval
            THEN IF total_size - FileSize <= TargetSize
                 THEN {file_path}
                 ELSE {file_path} \cup
                      FilesToRemove(c, order, last, k + 1, total_size - FileSize)
            ELSE FilesToRemove(c, order, last, k + 1, total_size)

\* _cleanup_lru: every cache it can leave. The query groups the rows with
\* reference_count > 0 by file_path and orders the groups by last_accessed, a
\* bare column that SQLite takes from one row of the group; ties fall either way
cleanup_lru(c) ==
    LET live(p) == {t \in RowsAt(c, p) : c.rows[t].reference_count > 0}
        cands == {p \in CacheTracks : live(p) # {}}
        n == Cardinality(cands)
        reps == {r \in [cands -> CacheTracks] : \A p \in cands : r[p] \in live(p)}
        orders(last) ==
            {o \in [1..n -> cands] :
                /\ \A i, j \in 1..n : o[i] = o[j] => i = j
                /\ \A i, j \in 1..n : i < j => last[o[i]] <= last[o[j]]}
    IN UNION {LET last == [p \in cands |-> c.rows[r[p]].last_accessed]
              IN {LET gone == FilesToRemove(c, o, last, 1, get_total_cache_size(c))
                  IN [c EXCEPT !.files = c.files \ gone, !.rows = DeleteRowsAt(c, gone)] :
                  o \in orders(last)} : r \in reps}

\* _check_cache_space
check_cache_space(c) ==
    IF get_total_cache_size(c) > MaxSize THEN cleanup_lru(c) ELSE {c}

\* _find_by_hash: the rows the query (audio_hash = ? AND reference_count > 0
\* LIMIT 1) can return
find_by_hash(c, h) ==
    {u \in CacheTracks : HasRow(c, u) /\ c.rows[u].audio_hash = h
                         /\ c.rows[u].reference_count > 0}

\* _create_cache_reference: INSERT OR REPLACE the row of song_id with
\* reference_count 1, then reference_count + 1 on the other rows of file_path
create_cache_reference(c, song_id, file_path, h) ==
    [c EXCEPT !.rows =
        [t \in CacheTracks |->
            IF t = song_id
            THEN [file_path |-> file_path, audio_hash |-> h, reference_count |-> 1,
                  last_accessed |-> c.now]
            ELSE IF c.rows[t].file_path = file_path
            THEN [c.rows[t] EXCEPT !.reference_count = @ + 1]
            ELSE c.rows[t]]]

\* remove_song_cache of a song that has a row
remove_song_cache(c, song_id) ==
    LET file_path == c.rows[song_id].file_path
        rows == [t \in CacheTracks |->
                    IF t = song_id THEN NoRow
                    ELSE IF c.rows[t].file_path = file_path
                    THEN [c.rows[t] EXCEPT !.reference_count = @ - 1]
                    ELSE c.rows[t]]
        ref_count == Cardinality({t \in CacheTracks : rows[t].file_path = file_path})
    IN [c EXCEPT !.rows = rows,
                 !.files = IF ref_count = 0 THEN c.files \ {file_path} ELSE c.files]

\* remove_from_cache of a song that has a row: the file goes when no other row
\* has the song's audio_hash
remove_from_cache(c, song_id) ==
    LET row == c.rows[song_id]
        rows == [c.rows EXCEPT ![song_id] = NoRow]
        ref_count == Cardinality({t \in CacheTracks : rows[t].audio_hash = row.audio_hash})
    IN [c EXCEPT !.rows = rows,
                 !.files = IF ref_count = 0 THEN c.files \ {row.file_path} ELSE c.files]

\* clear_cache
clear_cache(c) == [c EXCEPT !.rows = [t \in CacheTracks |-> NoRow], !.files = {}]

\* cleanup_orphaned_files: unlink the files no row names, then delete the rows
\* whose file does not exist
cleanup_orphaned_files(c) ==
    LET files == {p \in c.files : RowsAt(c, p) # {}}
    IN [c EXCEPT !.files = files,
                 !.rows = [t \in CacheTracks |->
                              IF c.rows[t].file_path \in files THEN c.rows[t] ELSE NoRow]]

\* ---------------------------------------------------------- initial states
NoProbe == [kind |-> "off", i |-> 0, n |-> 0, song |-> NoSong]

\* BotPlayerPlugin.__init__ followed by initialize(): one BotPlayerCore, one flag,
\* one lock, whatever the number of guilds; no voice client is playing
PluginInit ==
    /\ queue = EmptyQueue
    /\ status = IDLE
    /\ current_song = NoSong
    /\ is_processing_next = FALSE
    /\ playing_lock = FALSE
    /\ voice = [g \in Guilds |-> FALSE]
    /\ callbacks = EmptyBag
    /\ advances = EmptyBag
    /\ last_stop = NoGuild
    /\ probe = NoProbe
    /\ cache = EmptyCache

\* ------------------------------------------- queue operations on their own
\* BotPlayerCore.add_to_queue -> PlayQueue.add_song
QueueAddSong ==
    /\ Len(queue.songs) < MaxLen
    /\ \E s \in QueueSongs :
           \/ queue' = add_song(queue, s)
           \/ \E position \in -1..MaxLen : queue' = add_song_at(queue, s, position)
    /\ UNCHANGED <<playerVars, pluginVars, last_stop, probe>>
    /\ UNCHANGED cache

\* BotPlayerCore.remove_from_queue -> PlayQueue.remove_song
QueueRemoveSong ==
    /\ \E index \in -1..MaxLen : queue' = remove_song(queue, index)
    /\ UNCHANGED <<playerVars, pluginVars, last_stop, probe>>
    /\ UNCHANGED cache

\* PlayQueue.next_song
QueueNextSong ==
    /\ \E r \in next_song(queue) : queue' = r.queue
    /\ UNCHANGED <<playerVars, pluginVars, last_stop, probe>>
    /\ UNCHANGED cache

\* PlayQueue.previous_song
QueuePreviousSong ==
    /\ queue' = previous_song(queue).queue
    /\ UNCHANGED <<playerVars, pluginVars, last_stop, probe>>
    /\ UNCHANGED cache

\* BotPlayerCore.clear_queue -> PlayQueue.clear
QueueClear ==
    /\ queue' = clear(queue)
    /\ UNCHANGED <<playerVars, pluginVars, last_stop, probe>>
    /\ UNCHANGED cache

\* BotPlayerCore.shuffle_queue -> PlayQueue.shuffle_all
QueueShuffleAll ==
    /\ \E q \in shuffle_all(queue) : queue' = q
    /\ UNCHANGED <<playerVars, pluginVars, last_stop, probe>>
    /\ UNCHANGED cache

\* BotPlayerCore.set_play_mode
QueueSetPlayMode ==
    /\ \E m \in PlayModes : queue' = [queue EXCEPT !.play_mode = m]
    /\ UNCHANGED <<playerVars, pluginVars, last_stop, probe>>
    /\ UNCHANGED cache

QueueNext ==
    \/ QueueAddSong
    \/ QueueRemoveSong
    \/ QueueNextSong
    \/ QueuePreviousSong
    \/ QueueClear
    \/ QueueShuffleAll
    \/ QueueSetPlayMode

\* Arbitrary sequences of queue operations from a freshly constructed queue
SpecQueue == PluginInit /\ [][QueueNext]_vars

\* ------------------------------------ consecutive advances, one at a time
\* handle_song_finished_sync: whether the handler goes on to another track
should_play_next(q) ==
    IF q.play_mode = REPEAT_ONE THEN TRUE
    ELSE IF q.play_mode = SEQUENTIAL THEN has_next_song(q)
    ELSE TRUE

\* The states the advance specification starts from: a non-empty queue with a
\* valid current index whose track is playing, in any play mode
AdvanceInit ==
    /\ \E songs \in SeqsUpTo(SongIds, MaxLen) \ {<<>>}, m \in PlayModes :
         \E i \in 0..(Len(songs) - 1), kind \in {"next_song", "track_ended"} :
           /\ queue = [songs |-> songs, current_index |-> i, play_mode |-> m,
                       shuffle_history |-> <<>>]
           /\ current_song = songs[i + 1]
           /\ probe = [kind |-> kind, i |-> i, n |-> 0, song |-> NoSong]
    /\ status = PLAYING
    /\ is_processing_next = FALSE
    /\ playing_lock = FALSE
    /\ voice = [g \in Guilds |-> FALSE]
    /\ callbacks = EmptyBag
    /\ advances = EmptyBag
    /\ last_stop = NoGuild
    /\ cache = EmptyCache

\* One call of PlayQueue.next_song; the probe counts it and keeps what it yielded
AdvanceNextSong ==
    /\ probe.kind = "next_song"
    /\ probe.n < MaxSteps
    /\ \E r \in next_song(queue) :
         /\ queue' = r.queue
         /\ probe' = [probe EXCEPT !.n = probe.n + 1, !.song = r.song]
    /\ UNCHANGED <<playerVars, pluginVars, last_stop>>
    /\ UNCHANGED cache

\* One track_ended event handled to its end with nothing else running:
\* handle_song_finished_sync, then the thread it spawns (replay_current_song_safe
\* in REPEAT_ONE, else play_next_song_safe), or BotPlayerCore.stop when the
\* handler decides not to go on
AdvanceTrackEnded ==
    /\ probe.kind = "track_ended"
    /\ probe.n < MaxSteps
    /\ IF ~should_play_next(queue)
       THEN /\ status' = StoppedStatus
            /\ current_song' = NoSong
            /\ queue' = queue
            /\ probe' = [probe EXCEPT !.n = probe.n + 1, !.song = NoSong]
       ELSE IF queue.play_mode = REPEAT_ONE
       THEN /\ UNCHANGED <<status, current_song, queue>>
            /\ probe' = [probe EXCEPT !.n = probe.n + 1, !.song = current_song]
       ELSE \E r \in next_song(queue) :
              /\ queue' = r.queue
              /\ IF r.song # NoSong
                 THEN current_song' = r.song /\ status' = status
                 ELSE current_song' = NoSong /\ status' = StoppedStatus
              /\ probe' = [probe EXCEPT !.n = probe.n + 1, !.song = r.song]
    /\ UNCHANGED <<pluginVars, last_stop>>
    /\ UNCHANGED cache

AdvanceNext ==
    \/ AdvanceNextSong
    \/ AdvanceTrackEnded

\* N consecutive advances of one queue, nothing else touching it
SpecAdvance == AdvanceInit /\ [][AdvanceNext]_vars

\* ------------------------------------------- the plugin: voice transport
\* voice_client.stop() on a playing client: the player thread ends and calls
\* after_playing on its own thread
StopVoice(g, cause) ==
    /\ voice' = [voice EXCEPT ![g] = FALSE]
    /\ callbacks' = BagAdd(callbacks, [g |-> g, cause |-> cause, pc |-> "check"])

\* room for one more thread, and for the callback that stopping guild g's
\* client would start
ThreadRoom == BagSize(callbacks) + BagSize(advances) < MaxThreads
CallbackRoom(g) == voice[g] => ThreadRoom

\* play_audio_file: stop what is playing (its callback fires), then
\* voice_client.play(audio_source, after=after_playing)
play_audio_file(g) ==
    /\ voice' = [voice EXCEPT ![g] = TRUE]
    /\ callbacks' = IF voice[g]
                    THEN BagAdd(callbacks, [g |-> g, cause |-> "other", pc |-> "check"])
                    ELSE callbacks

\* The track of guild g plays to its end: after_playing(None) on the voice thread
TrackEnded(g) ==
    /\ voice[g]
    /\ CallbackRoom(g)
    /\ StopVoice(g, "ended")
    /\ UNCHANGED <<queueVars, playerVars, is_processing_next, playing_lock, advances,
                   last_stop, probe>>
    /\ UNCHANGED cache

\* The track of guild g ends with a playback error: after_playing(error) only prints
TrackFailed(g) ==
    /\ voice[g]
    /\ voice' = [voice EXCEPT ![g] = FALSE]
    /\ UNCHANGED <<queueVars, playerVars, is_processing_next, playing_lock, callbacks,
                   advances, last_stop, probe>>
    /\ UNCHANGED cache

\* ------------------------- handle_song_finished_sync, on the voice thread
\* "if self._is_processing_next: return": the completion is dropped
CallbackRefused(c) ==
    /\ BagIn(c, callbacks) /\ c.pc = "check"
    /\ is_processing_next
    /\ callbacks' = BagRemove(callbacks, c)
    /\ UNCHANGED <<queueVars, playerVars, is_processing_next, playing_lock, voice,
                   advances, last_stop, probe>>
    /\ UNCHANGED cache

\* the flag was read as False; the store that follows is a later step of the
\* thread (nothing makes the test and the store one atomic operation)
CallbackPassed(c) ==
    /\ BagIn(c, callbacks) /\ c.pc = "check"
    /\ ~is_processing_next
    /\ callbacks' = BagMove(callbacks, c, [c EXCEPT !.pc = "set"])
    /\ UNCHANGED <<queueVars, playerVars, is_processing_next, playing_lock, voice,
                   advances, last_stop, probe>>
    /\ UNCHANGED cache

\* self._is_processing_next = True; should_play_next holds:
\* threading.Thread(target=run_async_task_with_lock, ...).start() with
\* replay_current_song_safe in REPEAT_ONE mode, else play_next_song_safe
CallbackSpawn(c) ==
    /\ BagIn(c, callbacks) /\ c.pc = "set"
    /\ should_play_next(queue)
    /\ is_processing_next' = TRUE
    /\ advances' = BagAdd(advances,
           [g |-> c.g,
            kind |-> IF queue.play_mode = REPEAT_ONE THEN "replay" ELSE "next",
            pc |-> "acquire"])
    /\ callbacks' = BagRemove(callbacks, c)
    /\ UNCHANGED <<queueVars, playerVars, playing_lock, voice, last_stop, probe>>
    /\ UNCHANGED cache

\* self._is_processing_next = True; should_play_next does not hold:
\* self.player_core.stop(); self._is_processing_next = False
CallbackStop(c) ==
    /\ BagIn(c, callbacks) /\ c.pc = "set"
    /\ ~should_play_next(queue)
    /\ status' = StoppedStatus
    /\ current_song' = NoSong
    /\ is_processing_next' = FALSE
    /\ callbacks' = BagRemove(callbacks, c)
    /\ UNCHANGED <<queueVars, playing_lock, voice, advances, last_stop, probe>>
    /\ UNCHANGED cache

\* ------------- play_next_song_safe / replay_current_song_safe, on the
\* ------------- thread and event loop run_async_task_with_lock creates
\* async with self._playing_lock: taken when free.
\* play_next_song_safe then stops a client that is still playing.
AdvanceAcquire(a) ==
    /\ BagIn(a, advances) /\ a.pc = "acquire"
    /\ ~playing_lock
    /\ playing_lock' = TRUE
    /\ IF a.kind = "next"
       THEN /\ advances' = BagMove(advances, a, [a EXCEPT !.pc = "select"])
            /\ IF voice[a.g]
               THEN ThreadRoom /\ StopVoice(a.g, "other")
               ELSE UNCHANGED <<voice, callbacks>>
       ELSE /\ advances' = BagMove(advances, a, [a EXCEPT !.pc = "fetch"])
            /\ UNCHANGED <<voice, callbacks>>
    /\ UNCHANGED <<queueVars, playerVars, is_processing_next, last_stop, probe>>
    /\ UNCHANGED cache

\* async with self._playing_lock finds the lock held: Lock.acquire waits on a
\* future while the holder runs on another thread's event loop. The wait can end
\* when the lock is released (AdvanceAcquire), never end, or raise RuntimeError,
\* and then run_async_task_with_lock's finally resets the flag
AdvanceLockFailed(a) ==
    /\ BagIn(a, advances) /\ a.pc = "acquire"
    /\ playing_lock
    /\ is_processing_next' = FALSE
    /\ advances' = BagRemove(advances, a)
    /\ UNCHANGED <<queueVars, playerVars, playing_lock, voice, callbacks, last_stop,
                   probe>>
    /\ UNCHANGED cache

\* next_song = queue.next_song(): a song becomes player_state.current_song,
\* none means self.player_core.stop()
AdvanceSelect(a) ==
    /\ BagIn(a, advances) /\ a.pc = "select"
    /\ \E r \in next_song(queue) :
         /\ queue' = r.queue
         /\ IF r.song # NoSong
            THEN /\ current_song' = r.song
                 /\ status' = status
                 /\ advances' = BagMove(advances, a, [a EXCEPT !.pc = "fetch"])
            ELSE /\ current_song' = NoSong
                 /\ status' = StoppedStatus
                 /\ advances' = BagMove(advances, a, [a EXCEPT !.pc = "finish"])
    /\ UNCHANGED <<is_processing_next, playing_lock, voice, callbacks, last_stop, probe>>
    /\ UNCHANGED cache

\* get_audio_file returned a file: play_audio_file starts the song
\* (replay_current_song_safe has nothing to start without a current song)
AdvanceStart(a) ==
    /\ BagIn(a, advances) /\ a.pc = "fetch"
    /\ IF a.kind = "replay" /\ current_song = NoSong
       THEN UNCHANGED <<voice, callbacks>>
       ELSE CallbackRoom(a.g) /\ play_audio_file(a.g)
    /\ advances' = BagMove(advances, a, [a EXCEPT !.pc = "finish"])
    /\ UNCHANGED <<queueVars, playerVars, is_processing_next, playing_lock,
                   last_stop, probe>>
    /\ UNCHANGED cache

\* get_audio_file returned None: only a message is sent
AdvanceNoAudio(a) ==
    /\ BagIn(a, advances) /\ a.pc = "fetch"
    /\ advances' = BagMove(advances, a, [a EXCEPT !.pc = "finish"])
    /\ UNCHANGED <<queueVars, playerVars, is_processing_next, playing_lock, voice,
                   callbacks, last_stop, probe>>
    /\ UNCHANGED cache

\* the coroutine returns (the lock is released) and run_async_task_with_lock's
\* finally resets the flag
AdvanceFinish(a) ==
    /\ BagIn(a, advances) /\ a.pc = "finish"
    /\ playing_lock' = FALSE
    /\ is_processing_next' = FALSE
    /\ advances' = BagRemove(advances, a)
    /\ UNCHANGED <<queueVars, playerVars, voice, callbacks, last_stop, probe>>
    /\ UNCHANGED cache

\* ------------------------------------ commands, on the main event loop
\* playlists BotPlayerCore.get_playlist_by_id can return: playlist_songs has
\* PRIMARY KEY (playlist_id, song_id), so a stored playlist holds no song twice
StoredPlaylists ==
    {p \in SeqsUpTo(PluginSongs, MaxQueue) : \A i, j \in 1..Len(p) : p[i] = p[j] => i = j}

\* BotPlayerCore.smart_play with the search returning song s first:
\* add_to_queue(s), and play_song(s) only when the status is IDLE
smart_play(s) ==
    /\ queue' = add_song(queue, s)
    /\ IF status = IDLE
       THEN status' = PLAYING /\ current_song' = s
       ELSE UNCHANGED <<status, current_song>>

\* play_command: smart_play, then get_audio_file and play_audio_file of the
\* song found, whatever the status was
PlayCommand(g, s) ==
    /\ Len(queue.songs) < MaxQueue
    /\ CallbackRoom(g)
    /\ smart_play(s)
    /\ play_audio_file(g)
    /\ last_stop' = NoGuild
    /\ UNCHANGED <<is_processing_next, playing_lock, advances, probe>>
    /\ UNCHANGED cache

\* playlist_play_command: load_playlist_to_queue (clear_queue, then add_to_queue
\* of every song), current_song = the queue's current song, play_audio_file
PlaylistPlayCommand(g, p) ==
    /\ LET q == [clear(queue) EXCEPT !.songs = p]
       IN /\ queue' = q
          /\ IF get_current_song(q) # NoSong
             THEN /\ current_song' = get_current_song(q)
                  /\ CallbackRoom(g)
                  /\ play_audio_file(g)
             ELSE UNCHANGED <<current_song, voice, callbacks>>
    /\ last_stop' = NoGuild
    /\ UNCHANGED <<status, is_processing_next, playing_lock, advances, probe>>
    /\ UNCHANGED cache

\* pause_command -> BotPlayerCore.pause
PauseCommand ==
    /\ status = PLAYING
    /\ status' = PAUSED
    /\ UNCHANGED <<queueVars, current_song, pluginVars, last_stop, probe>>
    /\ UNCHANGED cache

\* resume_command -> BotPlayerCore.resume
ResumeCommand ==
    /\ status = PAUSED
    /\ status' = PLAYING
    /\ UNCHANGED <<queueVars, current_song, pluginVars, last_stop, probe>>
    /\ UNCHANGED cache

\* stop_command: voice_client.stop() when the client is playing, then
\* player_core.stop() and player_core.clear_queue().
\* last_stop remembers a stop issued in Playing or Paused.
StopCommand(g) ==
    /\ IF voice[g]
       THEN ThreadRoom /\ StopVoice(g, "other")
       ELSE UNCHANGED <<voice, callbacks>>
    /\ status' = StoppedStatus
    /\ current_song' = NoSong
    /\ queue' = clear(queue)
    /\ last_stop' = IF status \in {PLAYING, PAUSED} THEN g ELSE NoGuild
    /\ UNCHANGED <<is_processing_next, playing_lock, advances, probe>>
    /\ UNCHANGED cache

\* skip_command accepted: the flag is clear and the client is playing, so
\* voice_client.stop() and nothing else (refused or idle, it changes nothing)
SkipCommand(g) ==
    /\ ~is_processing_next
    /\ voice[g]
    /\ ThreadRoom
    /\ StopVoice(g, "skip")
    /\ UNCHANGED <<queueVars, playerVars, is_processing_next, playing_lock, advances,
                   last_stop, probe>>
    /\ UNCHANGED cache

\* shuffle_command -> BotPlayerCore.shuffle_queue
ShuffleCommand ==
    /\ \E q \in shuffle_all(queue) : queue' = q
    /\ UNCHANGED <<playerVars, pluginVars, last_stop, probe>>
    /\ UNCHANGED cache

\* the modes the plugin specification hands to repeat_command (shuffle's random
\* choices are explored by the queue specifications)
CommandModes == {SEQUENTIAL, REPEAT_ALL, REPEAT_ONE}

\* repeat_command -> BotPlayerCore.set_play_mode
RepeatCommand(m) ==
    /\ queue' = [queue EXCEPT !.play_mode = m]
    /\ UNCHANGED <<playerVars, pluginVars, last_stop, probe>>
    /\ UNCHANGED cache

\* every step of a command that names its guild (the others take no guild)
GuildCommandStep(g) ==
    \/ \E s \in PluginSongs : PlayCommand(g, s)
    \/ \E p \in StoredPlaylists : PlaylistPlayCommand(g, p)
    \/ StopCommand(g)
    \/ SkipCommand(g)

\* every step of a command that is handed no guild
PlayerCommandStep ==
    \/ PauseCommand
    \/ ResumeCommand
    \/ ShuffleCommand
    \/ \E m \in CommandModes : RepeatCommand(m)

\* every step of a completion callback, on its voice thread
CallbackStep(c) ==
    \/ CallbackRefused(c)
    \/ CallbackPassed(c)
    \/ CallbackSpawn(c)
    \/ CallbackStop(c)

\* every step of a thread spawned by handle_song_finished_sync
AdvanceStep(a) ==
    \/ AdvanceAcquire(a)
    \/ AdvanceLockFailed(a)
    \/ AdvanceSelect(a)
    \/ AdvanceStart(a)
    \/ AdvanceNoAudio(a)
    \/ AdvanceFinish(a)

Next ==
    \/ \E g \in Guilds : TrackEnded(g)
    \/ \E g \in Guilds : TrackFailed(g)
    \/ \E g \in Guilds : GuildCommandStep(g)
    \/ PlayerCommandStep
    \/ \E c \in CallbackTypes : CallbackStep(c)
    \/ \E a \in AdvanceTypes : AdvanceStep(a)

\* The plugin with its commands, voice callbacks and advance threads
Spec == PluginInit /\ [][Next]_vars

\* ------------------------------------------- nine tracks in shuffle mode
\* a queue of nine distinct tracks
NineTracks == <<"t0", "t1", "t2", "t3", "t4", "t5", "t6", "t7", "t8">>

\* PlayQueue(songs=NineTracks, play_mode=SHUFFLE): current_index 0, empty history
ShuffleInit ==
    /\ queue = [songs |-> NineTracks, current_index |-> 0, play_mode |-> SHUFFLE,
                shuffle_history |-> <<>>]
    /\ status = PLAYING
    /\ current_song = NineTracks[1]
    /\ is_processing_next = FALSE
    /\ playing_lock = FALSE
    /\ voice = [g \in Guilds |-> FALSE]
    /\ callbacks = EmptyBag
    /\ advances = EmptyBag
    /\ last_stop = NoGuild
    /\ probe = [kind |-> "shuffle", i |-> 0, n |-> 0, song |-> NoSong]
    /\ cache = EmptyCache

\* One call of PlayQueue.next_song, until len(songs) - 1 calls were made
ShuffleNextSong ==
    /\ probe.kind = "shuffle"
    /\ probe.n < Len(queue.songs) - 1
    /\ \E r \in next_song(queue) :
         /\ queue' = r.queue
         /\ probe' = [probe EXCEPT !.n = probe.n + 1, !.song = r.song]
    /\ UNCHANGED <<playerVars, pluginVars, last_stop>>
    /\ UNCHANGED cache

\* Every outcome of the random choices of eight advances over nine tracks
SpecShuffle == ShuffleInit /\ [][ShuffleNextSong]_vars

\* ------------------------------------------------ the cache on its own
\* Most cache operations in one run of the cache specification.
MaxClock == 5

\* An empty cache, for every way the tracks' downloads can share their bytes
CacheInit ==
    /\ queue = EmptyQueue
    /\ status = IDLE
    /\ current_song = NoSong
    /\ is_processing_next = FALSE
    /\ playing_lock = FALSE
    /\ voice = [g \in Guilds |-> FALSE]
    /\ callbacks = EmptyBag
    /\ advances = EmptyBag
    /\ last_stop = NoGuild
    /\ probe = NoProbe
    /\ cache \in {[EmptyCache EXCEPT !.content = m, !.min_access_interval = i, !.usable = u] :
                    m \in ContentMaps, i \in MinAccessIntervals, u \in UsableSets}

\* time passes between two operations
Tick(c) == [c EXCEPT !.now = c.now + 1]

\* the rest of the plugin is left alone by the cache
CacheOnly == UNCHANGED <<queueVars, playerVars, pluginVars, last_stop>>

\* what the last cache operation was and what it returned: a path or None
\* (NoSong) for get_audio_file, "True" or "False" for the remove functions and
\* clear_cache, removed_count for cleanup_orphaned_files
Returned(op, value, count) == [kind |-> op, i |-> 0, n |-> count, song |-> value]

\* get_audio_file, cache hit: the row exists and so does its file
CacheHit(t) ==
    /\ cache.now < MaxClock
    /\ HasRow(cache, t) /\ cache.rows[t].file_path \in cache.files
    /\ cache' = [Tick(cache) EXCEPT !.rows[t].last_accessed = cache.now + 1]
    /\ probe' = Returned("hit", cache.rows[t].file_path, 0)
    /\ CacheOnly

\* get_audio_file, cache miss, and _download_with_ytdlp returns None
CacheDownloadFailed(t) ==
    /\ cache.now < MaxClock
    /\ ~(HasRow(cache, t) /\ cache.rows[t].file_path \in cache.files)
    /\ cache' = Tick(cache)
    /\ probe' = Returned("download_failed", NoSong, 0)
    /\ CacheOnly

\* get_audio_file, cache miss, and _download_with_ytdlp returns None after
\* ydl.download wrote a file whose suffix is none of mp3, m4a, opus, ogg, wav
\* ("Downloaded file not found"): the file stays in temp_dir
CacheDownloadUnusable(t) ==
    /\ cache.now < MaxClock
    /\ ~(HasRow(cache, t) /\ cache.rows[t].file_path \in cache.files)
    /\ t \notin cache.usable
    /\ cache' = [Tick(cache) EXCEPT !.temp = @ \cup {t}]
    /\ probe' = Returned("download_unusable", NoSong, 0)
    /\ CacheOnly

\* _download_and_cache when _find_by_hash returns the file of row u: the temp
\* file is removed and a reference is created
CacheDedup(t) ==
    /\ cache.now < MaxClock
    /\ ~(HasRow(cache, t) /\ cache.rows[t].file_path \in cache.files)
    /\ t \in cache.usable
    /\ \E u \in find_by_hash(cache, cache.content[t]) :
         /\ cache.rows[u].file_path \in cache.files
         /\ cache' = create_cache_reference(Tick(cache), t, cache.rows[u].file_path,
                                            cache.content[t])
         /\ probe' = Returned("dedup", cache.rows[u].file_path, 0)
    /\ CacheOnly

\* _download_and_cache when _find_by_hash returns None (no row, or the row the
\* query returned has lost its file): the temp file is moved to the path named
\* after the song, _check_cache_space runs, then the row is saved (not when
\* the file is gone again: os.path.getsize raises and None is returned)
CacheStore(t) ==
    /\ cache.now < MaxClock
    /\ ~(HasRow(cache, t) /\ cache.rows[t].file_path \in cache.files)
    /\ t \in cache.usable
    /\ \/ find_by_hash(cache, cache.content[t]) = {}
       \/ \E u \in find_by_hash(cache, cache.content[t]) :
            cache.rows[u].file_path \notin cache.files
    /\ \E c \in check_cache_space([Tick(cache) EXCEPT !.files = cache.files \cup {t}]) :
         /\ cache' = IF t \in c.files
                     THEN [c EXCEPT !.rows[t] =
                              [file_path |-> t, audio_hash |-> cache.content[t],
                               reference_count |-> 1, last_accessed |-> c.now]]
                     ELSE c
         /\ probe' = Returned("store", IF t \in c.files THEN t ELSE NoSong, 0)
    /\ CacheOnly

\* remove_song_cache(song_id) of a song with a row (without one it returns False)
CacheRemoveSong(t) ==
    /\ cache.now < MaxClock
    /\ HasRow(cache, t)
    /\ cache' = remove_song_cache(Tick(cache), t)
    /\ probe' = Returned("remove_song_cache", "True", 0)
    /\ CacheOnly

\* remove_from_cache(song_id) of a song with a row
CacheRemoveFrom(t) ==
    /\ cache.now < MaxClock
    /\ HasRow(cache, t)
    /\ cache' = remove_from_cache(Tick(cache), t)
    /\ probe' = Returned("remove_from_cache", "True", 0)
    /\ CacheOnly

\* remove_song_cache(song_id) or remove_from_cache(song_id) of a song without a
\* row: _get_cache_info returns None and the method returns False
CacheRemoveNoRow(t) ==
    /\ cache.now < MaxClock
    /\ ~HasRow(cache, t)
    /\ cache' = Tick(cache)
    /\ probe' = Returned("remove_no_row", "False", 0)
    /\ CacheOnly

\* cache clear command -> clear_cache
CacheClear ==
    /\ cache.now < MaxClock
    /\ cache' = clear_cache(Tick(cache))
    /\ probe' = Returned("clear_cache", "True", 0)
    /\ CacheOnly

\* cache cleanup command -> cleanup_orphaned_files
CacheCleanupOrphans ==
    /\ cache.now < MaxClock
    /\ cache' = cleanup_orphaned_files(Tick(cache))
    /\ probe' = Returned("cleanup_orphaned_files", "", 
                          Cardinality({p \in cache.files : RowsAt(cache, p) = {}}))
    /\ CacheOnly

CacheNext ==
    \/ \E t \in CacheTracks : CacheHit(t)
    \/ \E t \in CacheTracks : CacheDownloadFailed(t)
    \/ \E t \in CacheTracks : CacheDownloadUnusable(t)
    \/ \E t \in CacheTracks : CacheDedup(t)
    \/ \E t \in CacheTracks : CacheStore(t)
    \/ \E t \in CacheTracks : CacheRemoveSong(t)
    \/ \E t \in CacheTracks : CacheRemoveFrom(t)
    \/ \E t \in CacheTracks : CacheRemoveNoRow(t)
    \/ CacheClear
    \/ CacheCleanupOrphans

\* Arbitrary sequences of cache operations, one at a time
SpecCache == CacheInit /\ [][CacheNext]_vars


\* ------------------------------------------- overlapping cache operations
\* get_audio_file runs on the main loop (play commands) and, at the same time,
\* on the loop of an advance thread; clear_cache and cleanup_orphaned_files run
\* on the main loop. Nothing but _download_semaphore, an asyncio.Semaphore
\* shared by the loops, stands between them.

\* the tracks asked for while calls overlap: two URLs, with the same bytes or not
DownloadTracks == {TrackOrder[1], TrackOrder[2]}

\* An empty cache, every way the two tracks' bytes are shared, every download limit
DownloadsInit ==
    /\ queue = EmptyQueue
    /\ status = IDLE
    /\ current_song = NoSong
    /\ is_processing_next = FALSE
    /\ playing_lock = FALSE
    /\ voice = [g \in Guilds |-> FALSE]
    /\ callbacks = EmptyBag
    /\ advances = EmptyBag
    /\ last_stop = NoGuild
    /\ probe = NoProbe
    /\ cache \in {[EmptyCache EXCEPT !.content = m, !.max_downloads = v, !.value = v] :
                    m \in {n \in ContentMaps : \A t \in CacheTracks \ DownloadTracks : n[t] = t},
                    v \in DownloadLimits}

\* Semaphore.locked()
SemLocked(c) == c.value = 0 \/ c.waiters # <<>>

\* Semaphore._wake_up_next: the first future of the queue that is not done
\* takes the slot and gets its result; its coroutine has yet to run
WakeUpNext(c) ==
    LET pending == {i \in 1..Len(c.waiters) : c.jobs[c.waiters[i]].pc = "waiting"}
    IN IF pending = {} THEN c
       ELSE LET first == CHOOSE i \in pending : \A j \in pending : i <= j
            IN [c EXCEPT !.value = @ - 1, !.jobs[c.waiters[first]].pc = "woken"]

\* Semaphore.release, at the end of async with self._download_semaphore
SemRelease(c) == WakeUpNext([c EXCEPT !.value = @ + 1])

\* _download_and_cache of loop l returns result: the slot is released
JobReturn(c, l, result) ==
    [SemRelease(c) EXCEPT !.jobs[l] = [pc |-> "idle", track |-> c.jobs[l].track,
                                        result |-> result]]

\* the main loop is not inside a blocking call of its own
MainLoopFree == cache.jobs["main"].pc \in {"idle", "waiting", "woken"}

DownloadsOnly == UNCHANGED <<queueVars, playerVars, pluginVars, last_stop, probe>>

\* get_audio_file on loop l, cache miss, a slot is free: acquire returns at
\* once and the extractor starts for the track's URL
JobStart(l, t) ==
    /\ cache.now < MaxClock
    /\ cache.jobs[l].pc = "idle"
    /\ ~(HasRow(cache, t) /\ cache.rows[t].file_path \in cache.files)
    /\ ~SemLocked(cache)
    /\ cache' = [Tick(cache) EXCEPT !.value = @ - 1,
                    !.jobs[l] = [pc |-> "extracting", track |-> t, result |-> NoSong]]
    /\ DownloadsOnly

\* get_audio_file on loop l, cache miss, no slot: acquire queues a future of
\* loop l, to which the semaphore is bound from then on, and waits for it
JobWait(l, t) ==
    /\ cache.now < MaxClock
    /\ cache.jobs[l].pc = "idle"
    /\ ~(HasRow(cache, t) /\ cache.rows[t].file_path \in cache.files)
    /\ SemLocked(cache)
    /\ cache.sem_loop \in {NoLoop, l}
    /\ cache' = [Tick(cache) EXCEPT !.sem_loop = l, !.waiters = Append(@, l),
                    !.jobs[l] = [pc |-> "waiting", track |-> t, result |-> NoSong]]
    /\ DownloadsOnly

\* get_audio_file on loop l, cache miss, no slot, and the semaphore is bound to
\* another loop: _get_loop raises RuntimeError and get_audio_file returns None
JobRefused(l, t) ==
    /\ cache.now < MaxClock
    /\ cache.jobs[l].pc = "idle"
    /\ ~(HasRow(cache, t) /\ cache.rows[t].file_path \in cache.files)
    /\ SemLocked(cache)
    /\ cache.sem_loop \notin {NoLoop, l}
    /\ cache' = [Tick(cache) EXCEPT
                    !.jobs[l] = [pc |-> "idle", track |-> t, result |-> NoSong]]
    /\ DownloadsOnly

\* the coroutine of a woken future runs: only on the main loop, which other
\* events keep turning. release called set_result from another thread, which
\* does not wake the loop of an advance thread: that loop sleeps for good
JobResume(l) ==
    /\ l = "main"
    /\ cache.jobs[l].pc = "woken"
    /\ LET i == CHOOSE i \in 1..Len(cache.waiters) : cache.waiters[i] = l
           c == [cache EXCEPT !.waiters = RemoveAt(@, i), !.jobs[l].pc = "extracting"]
       IN cache' = IF c.value > 0 THEN WakeUpNext(c) ELSE c
    /\ DownloadsOnly

\* _download_with_ytdlp returns None on loop l
JobExtractFailed(l) ==
    /\ cache.jobs[l].pc = "extracting"
    /\ cache' = JobReturn(cache, l, NoSong)
    /\ DownloadsOnly

\* _download_with_ytdlp returns the temp file on loop l and _find_by_hash finds
\* the file of row u: a reference is created and its path returned
JobDedup(l) ==
    /\ cache.jobs[l].pc = "extracting"
    /\ LET t == cache.jobs[l].track
       IN \E u \in find_by_hash(cache, cache.content[t]) :
            /\ cache.rows[u].file_path \in cache.files
            /\ cache' = JobReturn(create_cache_reference(cache, t, cache.rows[u].file_path,
                                                         cache.content[t]),
                                  l, cache.rows[u].file_path)
    /\ DownloadsOnly

\* _download_with_ytdlp returns the temp file on loop l and _find_by_hash
\* returns None: the temp file is moved to the path named after the song
JobMoved(l) ==
    /\ cache.jobs[l].pc = "extracting"
    /\ LET t == cache.jobs[l].track
       IN /\ \/ find_by_hash(cache, cache.content[t]) = {}
             \/ \E u \in find_by_hash(cache, cache.content[t]) :
                  cache.rows[u].file_path \notin cache.files
          /\ cache' = [cache EXCEPT !.files = @ \cup {t}, !.jobs[l].pc = "moved"]
    /\ DownloadsOnly

\* _check_cache_space, then os.path.getsize(cache_file) for the row to save:
\* it raises when the file is gone, and None is returned
JobChecked(l) ==
    /\ cache.jobs[l].pc = "moved"
    /\ LET t == cache.jobs[l].track
       IN \E c \in check_cache_space(cache) :
            cache' = IF t \in c.files THEN [c EXCEPT !.jobs[l].pc = "sized"]
                     ELSE JobReturn(c, l, NoSong)
    /\ DownloadsOnly

\* _save_cache_info inserts the row and the path is returned
JobSaved(l) ==
    /\ cache.jobs[l].pc = "sized"
    /\ LET t == cache.jobs[l].track
       IN cache' = JobReturn([cache EXCEPT !.rows[t] =
                                 [file_path |-> t, audio_hash |-> cache.content[t],
                                  reference_count |-> 1, last_accessed |-> cache.now]],
                             l, t)
    /\ DownloadsOnly

\* the steps of a call that is under way
JobStep(l) ==
    \/ JobResume(l)
    \/ JobExtractFailed(l)
    \/ JobDedup(l)
    \/ JobMoved(l)
    \/ JobChecked(l)
    \/ JobSaved(l)

DownloadsNext ==
    \/ \E l \in Loops, t \in DownloadTracks : JobStart(l, t)
    \/ \E l \in Loops, t \in DownloadTracks : JobWait(l, t)
    \/ \E l \in Loops, t \in DownloadTracks : JobRefused(l, t)
    \/ \E l \in Loops : JobStep(l)
    \/ (MainLoopFree /\ CacheClear)
    \/ (MainLoopFree /\ CacheCleanupOrphans)

\* Calls of get_audio_file from several loops, with the cache commands of the
\* main loop in between
SpecDownloads == DownloadsInit /\ [][DownloadsNext]_vars

\* every thread keeps running: a call that can take its next step takes it
SpecDownloadsFair == SpecDownloads /\ \A l \in Loops : WF_vars(JobStep(l))


\* ----------------------------------------------------------- PluginManager
\* Strings are sequences of characters; three characters tell lower() and the
\* separator of the deduplication key apart
Chars == {"a", "A", "_"}
LowerChar(ch) == IF ch = "A" THEN "a" ELSE ch
\* str.lower()
Lower(s) == [i \in 1..Len(s) |-> LowerChar(s[i])]
\* sub in s
Contains(sub, s) ==
    \E i \in 0..(Len(s) - Len(sub)) : SubSeq(s, i + 1, i + Len(sub)) = sub

\* the titles, artists and queries of the searches explored
Titles == {<<"a">>, <<"A">>, <<"a", "_">>}
Artists == {<<"a">>, <<"_", "a">>}
Queries == {<<"a">>, <<"a", "_">>}
\* the enabled plugins in the order of self.plugins; each returns tracks of
\* its own platform
SearchPlugins == <<"bilibili", "netease">>
NoPlugin == "none"
\* the longest list a plugin returns, and the largest limit asked for
MaxResults == 2
MaxLimit == 2

\* the Song objects a plugin can return: the first plugin has every title by
\* every artist, the others the one-letter titles by the first artist
PluginTracks(p) ==
    IF p = SearchPlugins[1] THEN [title : Titles, artist : Artists, platform : {p}]
    ELSE [title : {<<"a">>, <<"A">>}, artist : {<<"a">>}, platform : {p}]
\* what _search_builtin / musicfree_loader.search_in_plugin does for a plugin:
\* it raises, or returns a list
PluginOutcomes(p) ==
    [raised : {TRUE}, tracks : {<<>>}] \cup
    [raised : {FALSE}, tracks : SeqsUpTo(PluginTracks(p), MaxResults)]

\* _search_in_plugin: an exception of the plugin is logged and [] returned
search_in_plugin(outcome) == IF outcome.raised THEN <<>> ELSE outcome.tracks

\* key = f"{song.title.lower()}_{song.artist.lower()}"
DedupKey(song) == Lower(song.title) \o <<"_">> \o Lower(song.artist)

\* the first loop of _rank_and_deduplicate from position k on
RECURSIVE Deduplicate(_, _, _)
Deduplicate(results, k, seen) ==
    IF k > Len(results) THEN <<>>
    ELSE IF DedupKey(results[k]) \in seen
         THEN Deduplicate(results, k + 1, seen)
         ELSE <<results[k]>> \o Deduplicate(results, k + 1, seen \cup {DedupKey(results[k])})

\* platform_scores.get(song.platform, platform_scores.get('default', 5)) with
\* the default map
PlatformScore(platform) ==
    IF platform = "bilibili" THEN 20
    ELSE IF platform = "netease" THEN 15
    ELSE IF platform = "local" THEN 10
    ELSE 5

\* score_song
score_song(song, query) ==
    (IF Lower(song.title) = Lower(query) THEN 100
     ELSE IF Contains(Lower(query), Lower(song.title)) THEN 50 ELSE 0)
    + (IF Contains(Lower(query), Lower(song.artist)) THEN 30 ELSE 0)
    + PlatformScore(song.platform)

\* sorted(s, key=score_song, reverse=True): a stable sort, built by inserting
\* each element after the elements that score at least as much
RECURSIVE sorted_by_score_ascending(_, _)
sorted_by_score_ascending(s, query) ==
    IF s = <<>> THEN <<>>
    ELSE LET rest == sorted_by_score_ascending(SubSeq(s, 1, Len(s) - 1), query)
             x == s[Len(s)]
             before == {i \in 1..Len(rest) :
                          score_song(rest[i], query) <= score_song(x, query)}
         IN InsertAt(rest, Cardinality(before) + 1, x)
RECURSIVE sorted_by_score(_, _)
sorted_by_score(s, query) ==
    IF s = <<>> THEN <<>>
    ELSE LET rest == sorted_by_score(SubSeq(s, 1, Len(s) - 1), query)
             x == s[Len(s)]
             before == {i \in 1..Len(rest) :
                          score_song(rest[i], query) >= score_song(x, query)}
         IN InsertAt(rest, Cardinality(before) + 1, x)

\* _rank_and_deduplicate
rank_and_deduplicate(results, query) ==
    sorted_by_score(Deduplicate(results, 1, {}), query)

\* the results list search_song builds: one plugin's results when plugin_name
\* names a plugin, else the plugins' results in the order of self.plugins
RECURSIVE Aggregate(_, _)
Aggregate(outcomes, k) ==
    IF k > Len(SearchPlugins) THEN <<>>
    ELSE search_in_plugin(outcomes[SearchPlugins[k]]) \o Aggregate(outcomes, k + 1)
SearchResults(outcomes, plugin_name) ==
    IF plugin_name # NoPlugin THEN search_in_plugin(outcomes[plugin_name])
    ELSE Aggregate(outcomes, 1)

\* results[:limit], limit > 0
Truncate(s, limit) == SubSeq(s, 1, Min(limit, Len(s)))

\* A call of search_song about to be made: its arguments and what each plugin
\* will do
SearchInit ==
    /\ queue = EmptyQueue
    /\ status = IDLE
    /\ current_song = NoSong
    /\ is_processing_next = FALSE
    /\ playing_lock = FALSE
    /\ voice = [g \in Guilds |-> FALSE]
    /\ callbacks = EmptyBag
    /\ advances = EmptyBag
    /\ last_stop = NoGuild
    /\ cache = EmptyCache
    /\ \E query \in Queries, limit \in 1..MaxLimit,
          plugin_name \in {NoPlugin} \cup Range(SearchPlugins),
          outcomes \in [Range(SearchPlugins) -> UNION {PluginOutcomes(p) : p \in Range(SearchPlugins)}] :
         /\ \A p \in Range(SearchPlugins) : outcomes[p] \in PluginOutcomes(p)
         /\ probe = [kind |-> "search", query |-> query, limit |-> limit,
                     plugin_name |-> plugin_name, outcomes |-> outcomes,
                     unique |-> <<>>, error |-> FALSE, returned |-> <<>>]

\* search_song: no exception of a plugin leaves _search_in_plugin, and the
\* list, never an error, is what the caller gets. unique keeps the list after
\* the deduplication loop
SearchSong ==
    /\ probe.kind = "search"
    /\ LET results == SearchResults(probe.outcomes, probe.plugin_name)
       IN probe' = [probe EXCEPT
                       !.kind = "searched",
                       !.unique = Deduplicate(results, 1, {}),
                       !.error = FALSE,
                       !.returned = Truncate(rank_and_deduplicate(results, probe.query),
                                             probe.limit)]
    /\ UNCHANGED <<queueVars, playerVars, pluginVars, last_stop, cache>>

SearchNext == SearchSong

\* One call of search_song for every input
SpecSearch == SearchInit /\ [][SearchNext]_vars

\* ------------------------------------- PlaylistImporter (playlist_importer.py)
\* Every variable but probe, as BotPlayerPlugin.__init__ leaves it: the
\* specifications of a single call keep their state in probe
RestAtInit ==
    /\ queue = EmptyQueue
    /\ status = IDLE
    /\ current_song = NoSong
    /\ is_processing_next = FALSE
    /\ playing_lock = FALSE
    /\ voice = [g \in Guilds |-> FALSE]
    /\ callbacks = EmptyBag
    /\ advances = EmptyBag
    /\ last_stop = NoGuild
    /\ cache = EmptyCache
ProbeOnly == UNCHANGED <<queueVars, playerVars, pluginVars, last_stop, cache>>

\* self.allowed_domains without a config manager; a host name is the sequence
\* of its dot-separated labels
allowed_domains ==
    { <<"github", "com">>, <<"raw", "githubusercontent", "com">>,
      <<"gist", "github", "com">>, <<"gist", "githubusercontent", "com">>,
      <<"gitlab", "com">>, <<"cdn", "jsdelivr", "net">>, <<"unpkg", "com">> }

\* The URLs handed to the importer: urlparse(url).scheme and .hostname (the
\* empty sequence when the URL names no host)
Schemes == {"https", "http", "ftp"}
HostLabels == {"github", "com", "evil", "raw"}
MaxLabels == 3
Hosts == SeqsUpTo(HostLabels, MaxLabels)
Urls == [scheme : Schemes, host : Hosts]

\* hostname.endswith('.' + allowed_domain): labels hold no dot, so the dotted
\* suffix is a proper suffix of the label sequence
EndsWithDomain(hostname, domain) ==
    /\ Len(hostname) > Len(domain)
    /\ SubSeq(hostname, Len(hostname) - Len(domain) + 1, Len(hostname)) = domain

\* _is_safe_url
is_safe_url(url) ==
    IF url.scheme # "https" THEN FALSE
    ELSE IF url.host = <<>> THEN FALSE
    ELSE \E allowed_domain \in allowed_domains :
            url.host = allowed_domain \/ EndsWithDomain(url.host, allowed_domain)

\* What the server behind a URL answers: a playlist document, or anything
\* that makes _download_json return None (status, size, timeout, bad JSON)
Responses == {"document", "nothing"}
NoPlaylist == "None"

\* _download_json: session.get(url) is issued whatever the answer will be; a
\* URL without a host makes it raise before anything is sent
download_json(p) ==
    IF p.url.host = <<>> THEN p ELSE [p EXCEPT !.requests = @ \cup {p.url}]

\* A call of the importer about to be made with a URL
ImportInit ==
    /\ RestAtInit
    /\ \E url \in Urls, response \in Responses :
          /\ url.host = <<>> => response = "nothing"
          /\ probe = [kind |-> "import", url |-> url, response |-> response,
                      requests |-> {}, result |-> NoPlaylist]

\* import_from_url
ImportFromUrl ==
    /\ probe.kind = "import"
    /\ probe' =
         IF ~is_safe_url(probe.url)
         THEN [probe EXCEPT !.kind = "import_from_url"]
         ELSE [download_json(probe) EXCEPT
                  !.kind = "import_from_url",
                  !.result = IF probe.response = "document" THEN "playlist" ELSE NoPlaylist]
    /\ ProbeOnly

\* import_from_musicfree_backup: a string starting with http:// or https://
\* is downloaded, anything else is opened as a local file, which a URL does
\* not name (open raises, [] is returned)
ImportFromMusicfreeBackup ==
    /\ probe.kind = "import"
    /\ probe' =
         IF probe.url.scheme \in {"http", "https"}
         THEN [download_json(probe) EXCEPT
                  !.kind = "import_from_musicfree_backup",
                  !.result = IF probe.response = "document" THEN "playlist" ELSE NoPlaylist]
         ELSE [probe EXCEPT !.kind = "import_from_musicfree_backup"]
    /\ ProbeOnly

ImportNext == ImportFromUrl \/ ImportFromMusicfreeBackup

\* One call of an importer entry point for every URL
SpecImport == ImportInit /\ [][ImportNext]_vars

\* ------------------------------------------------ export and import of a playlist
\* A Python None, and the keys a Song.extra dictionary holds: two dictionaries
\* are equal when they hold the same keys with the same values
None == "None"
NoExtra == [keys |-> {}, bvid |-> None]
BvidExtra == [keys |-> {"bvid"}, bvid |-> "BV1"]

\* Song objects as the plugins build them (models.py Song): id, platform, url
\* and extra are the fields the two formats treat differently
ExportSongs == [id : {"a", "b"}, platform : {"bilibili", "local"}, url : {"u"},
                extra : {NoExtra, BvidExtra}]
MaxSongs == 2
ExportPlaylists ==
    [id : {"p1"}, name : {"mix"}, description : {"", "d"}, creator : {"u"},
     created_at : {"", "t0"}, songs : SeqsUpTo(ExportSongs, MaxSongs)]
Formats == {"simple_playlist", "musicfree_backup"}
NoDocument == [format |-> "none"]

\* Playlist.to_dict with Song.to_dict: every field under its own key
playlist_to_dict(playlist) ==
    [format |-> "simple_playlist", id |-> playlist.id, name |-> playlist.name,
     description |-> playlist.description, creator |-> playlist.creator,
     created_at |-> playlist.created_at, songs |-> playlist.songs]

\* _convert_to_musicfree_format: one sheet; item.update(song.extra) writes the
\* keys of extra beside the song's own
convert_to_musicfree_format(playlist) ==
    [format |-> "musicfree_backup", id |-> playlist.id, platform |-> playlist.name,
     musicList |-> [i \in 1..Len(playlist.songs) |->
                       LET song == playlist.songs[i]
                       IN [id |-> song.id, platform |-> song.platform, url |-> song.url,
                           bvid |-> IF "bvid" \in song.extra.keys THEN song.extra.bvid
                                    ELSE None]]]

\* Playlist.add_song: a song equal to one already in the list is not appended
RECURSIVE add_songs(_, _)
add_songs(songs, new) ==
    IF new = <<>> THEN songs
    ELSE add_songs(IF Head(new) \in Range(songs) THEN songs ELSE Append(songs, Head(new)),
                   Tail(new))

\* _parse_musicfree_song
parse_musicfree_song(item) ==
    [id |-> item.id, platform |-> item.platform,
     url |-> IF item.platform = "bilibili" /\ item.bvid # None
             THEN "https://www.bilibili.com/video/" \o item.bvid
             ELSE item.url,
     extra |-> [keys |-> {"aid", "bvid", "original_item"}, bvid |-> item.bvid]]

\* _parse_musicfree_backup of a document with one sheet
parse_musicfree_backup(data, source) ==
    [id |-> data.id, name |-> data.platform,
     description |-> "Imported from " \o source, creator |-> "BotPlayer",
     created_at |-> "",
     songs |-> add_songs(<<>>, [i \in 1..Len(data.musicList) |->
                                   parse_musicfree_song(data.musicList[i])])]

\* _parse_simple_playlist: id, name, description, creator, cover and tags are
\* read, created_at, updated_at and extra are not
parse_simple_playlist(data, source) ==
    [id |-> data.id, name |-> data.name, description |-> data.description,
     creator |-> data.creator, created_at |-> "",
     songs |-> add_songs(<<>>, data.songs)]

\* _parse_playlist after _detect_format: the key musicSheets decides
parse_playlist(data, source) ==
    IF data.format = "musicfree_backup" THEN parse_musicfree_backup(data, source)
    ELSE parse_simple_playlist(data, source)

\* A playlist about to be exported in one of the two formats
RoundTripInit ==
    /\ RestAtInit
    /\ \E playlist \in ExportPlaylists, format_type \in Formats :
          probe = [kind |-> "playlist", playlist |-> playlist, format |-> format_type,
                   document |-> NoDocument, imported |-> playlist]

\* export_to_file: the dictionary json.dump writes
ExportToFile ==
    /\ probe.kind = "playlist"
    /\ probe' = [probe EXCEPT
                    !.kind = "exported",
                    !.document = IF probe.format = "simple_playlist"
                                 THEN playlist_to_dict(probe.playlist)
                                 ELSE convert_to_musicfree_format(probe.playlist)]
    /\ ProbeOnly

\* import_from_file of the exported file
ImportFromFile ==
    /\ probe.kind = "exported"
    /\ probe' = [probe EXCEPT !.kind = "imported",
                              !.imported = parse_playlist(probe.document, "file")]
    /\ ProbeOnly

RoundTripNext == ExportToFile \/ ImportFromFile

\* Export followed by import, for every playlist and both formats
SpecRoundTrip == RoundTripInit /\ [][RoundTripNext]_vars

\* --------------------------------------- the SQLite store (player.py)
\* Song.extra as _parse_musicfree_song builds it for an item without aid and
\* bvid: the keys hold None
ParsedExtra == [keys |-> {"aid", "bvid", "original_item"}, bvid |-> None]
HasNone(extra) == "aid" \in extra.keys \/ ("bvid" \in extra.keys /\ extra.bvid = None)

\* The text of column songs.extra. json.dumps writes JSON (null for None),
\* str writes the Python literal (single quotes, None); both write {} for the
\* empty dictionary
json_dumps(extra) == [syntax |-> "json", value |-> extra]
str_of(extra) == IF extra.keys = {} THEN json_dumps(extra)
                 ELSE [syntax |-> "python", value |-> extra]
\* json.loads raises on single quotes and None; eval raises on null
json_loads_raises(text) == text.syntax = "python"
eval_raises(text) == text.syntax = "json" /\ HasNone(text.value)

StorePlaylistIds == {"p1"}
StoreTrackIds == {"a", "b"}
NoHeader == "no_header"
NoSongRow == [title |-> None, extra |-> json_dumps(NoExtra)]
\* The Song objects of a run: what the plugins and the importer put in the
\* extra of each track
StoreExtras == {NoExtra, BvidExtra, ParsedExtra}
StoreCatalogues == [StoreTrackIds -> StoreExtras]
StoreSong(catalogue, id) == [id |-> id, title |-> "A", extra |-> catalogue[id]]
\* The Playlist objects handed to the store; created_at is the empty default
\* or "str", a text as the dataclass declares it
MaxTracks == 2
StorePlaylists(catalogue) ==
    {[id |-> id, name |-> name, created_at |-> created_at,
      songs |-> [i \in 1..Len(ids) |-> StoreSong(catalogue, ids[i])]] :
        id \in StorePlaylistIds, name \in {"n1", "n2"}, created_at \in {"", "str"},
        ids \in SeqsUpTo(StoreTrackIds, MaxTracks)}

\* _init_database: the four tables, empty. playlist_songs is the set of its
\* rows, play_history the set of song ids it holds
EmptyStore ==
    [playlists |-> [p \in StorePlaylistIds |-> NoHeader],
     songs |-> [s \in StoreTrackIds |-> NoSongRow],
     playlist_songs |-> {},
     play_history |-> {}]

\* A connection inside its transaction: ok turns FALSE when a statement raises
Begin(db) == [ok |-> TRUE, db |-> db]
Raise(tx) == [tx EXCEPT !.ok = FALSE]

\* INSERT OR REPLACE INTO songs: NOT NULL on title
InsertOrReplaceSong(tx, song, text) ==
    IF song.title = None THEN Raise(tx)
    ELSE [tx EXCEPT !.db.songs[song.id] = [title |-> song.title, extra |-> text]]

\* INSERT INTO playlist_songs: PRIMARY KEY (playlist_id, song_id)
InsertPlaylistSong(tx, playlist_id, song_id, position) ==
    IF \E r \in tx.db.playlist_songs : r.playlist_id = playlist_id /\ r.song_id = song_id
    THEN Raise(tx)
    ELSE [tx EXCEPT !.db.playlist_songs =
              @ \cup {[playlist_id |-> playlist_id, song_id |-> song_id,
                       position |-> position]}]

\* the loop of save_playlist, from Python position k - 1 on; the first
\* statement that raises ends it
RECURSIVE SaveTracks(_, _, _)
SaveTracks(tx, playlist, k) ==
    IF ~tx.ok \/ k > Len(playlist.songs) THEN tx
    ELSE LET song == playlist.songs[k]
             saved == InsertOrReplaceSong(tx, song, json_dumps(song.extra))
             linked == IF saved.ok
                       THEN InsertPlaylistSong(saved, playlist.id, song.id, k - 1)
                       ELSE saved
         IN SaveTracks(linked, playlist, k + 1)

\* The statements of save_playlist in order: created_at.isoformat() raises on
\* a non-empty str before anything is executed, then the header, the DELETE
\* of the old relations, the loop
SaveStatements(db, playlist) ==
    IF playlist.created_at = "str" THEN Raise(Begin(db))
    ELSE LET header == [Begin(db) EXCEPT !.db.playlists[playlist.id] = playlist.name]
             cleared == [header EXCEPT !.db.playlist_songs =
                            {r \in @ : r.playlist_id # playlist.id}]
         IN SaveTracks(cleared, playlist, 1)

\* with sqlite3.connect(...) as conn: the block's statements are committed
\* when it ends normally and rolled back when an exception leaves it
with_connection_no_rollback(before, tx) == tx.db
with_connection(before, tx) == IF tx.ok THEN tx.db ELSE before

\* save_playlist: the stored state after the call and the value returned
save_playlist(db, playlist) ==
    LET tx == SaveStatements(db, playlist)
    IN [db |-> with_connection(db, tx),
        result |-> IF tx.ok THEN playlist.id ELSE None]

\* _save_song: the same upsert with str(song.extra)
save_song(db, song) ==
    with_connection(db, InsertOrReplaceSong(Begin(db), song, str_of(song.extra)))

\* ORDER BY ps.position of the relations of a playlist joined to songs
RECURSIVE TracksFrom(_, _, _)
TracksFrom(db, playlist_id, position) ==
    LET later == {r \in db.playlist_songs :
                     r.playlist_id = playlist_id /\ r.position >= position}
    IN IF later = {} THEN <<>>
       ELSE LET r == CHOOSE x \in later : \A y \in later : x.position <= y.position
            IN (IF db.songs[r.song_id] = NoSongRow THEN <<>> ELSE <<r.song_id>>)
               \o TracksFrom(db, playlist_id, r.position + 1)

\* get_playlist_by_id: the track ids in order; None without a header and None
\* when json.loads raises on a joined row
NoPlaylistLoaded == [loaded |-> FALSE, ids |-> <<>>]
get_playlist_by_id(db, playlist_id) ==
    IF db.playlists[playlist_id] = NoHeader THEN NoPlaylistLoaded
    ELSE LET ids == TracksFrom(db, playlist_id, 0)
         IN IF \E i \in 1..Len(ids) : json_loads_raises(db.songs[ids[i]].extra)
            THEN NoPlaylistLoaded ELSE [loaded |-> TRUE, ids |-> ids]

\* _get_song_by_id: None without a row and when eval raises
get_song_by_id(db, song_id) ==
    IF db.songs[song_id] = NoSongRow THEN None
    ELSE IF eval_raises(db.songs[song_id].extra) THEN None
    ELSE song_id

\* get_play_history: the played songs that have a row, [] when eval raises
\* on one of them
get_play_history(db) ==
    LET ids == {s \in db.play_history : db.songs[s] # NoSongRow}
    IN IF \E s \in ids : eval_raises(db.songs[s].extra) THEN {} ELSE ids

StoreInit ==
    /\ RestAtInit
    /\ \E catalogue \in StoreCatalogues :
          probe = [kind |-> "init", catalogue |-> catalogue, db |-> EmptyStore,
                   arg |-> None, result |-> None]

Stored(op, db, arg, result) ==
    [probe EXCEPT !.kind = op, !.db = db, !.arg = arg, !.result = result]

SavePlaylist(playlist) ==
    /\ LET r == save_playlist(probe.db, playlist)
       IN probe' = Stored("save_playlist", r.db,
                          [id |-> playlist.id, name |-> playlist.name,
                           created_at |-> playlist.created_at,
                           ids |-> [i \in 1..Len(playlist.songs) |-> playlist.songs[i].id]],
                          r.result)
    /\ ProbeOnly

\* search_songs saves every track found
SaveSong(song) ==
    /\ probe' = Stored("save_song", save_song(probe.db, song), song.id, None)
    /\ ProbeOnly

\* play_song records the track it starts
RecordPlayHistory(song_id) ==
    /\ probe' = Stored("record_play_history",
                       [probe.db EXCEPT !.play_history = @ \cup {song_id}], song_id, None)
    /\ ProbeOnly

GetPlaylistById(playlist_id) ==
    /\ probe' = Stored("get_playlist_by_id", probe.db, playlist_id,
                       get_playlist_by_id(probe.db, playlist_id))
    /\ ProbeOnly

GetSongById(song_id) ==
    /\ probe' = Stored("get_song_by_id", probe.db, song_id,
                       get_song_by_id(probe.db, song_id))
    /\ ProbeOnly

GetPlayHistory ==
    /\ probe' = Stored("get_play_history", probe.db, None, get_play_history(probe.db))
    /\ ProbeOnly

StoreNext ==
    \/ \E playlist \in StorePlaylists(probe.catalogue) : SavePlaylist(playlist)
    \/ \E song_id \in StoreTrackIds : SaveSong(StoreSong(probe.catalogue, song_id))
    \/ \E song_id \in StoreTrackIds : RecordPlayHistory(song_id)
    \/ \E playlist_id \in StorePlaylistIds : GetPlaylistById(playlist_id)
    \/ \E song_id \in StoreTrackIds : GetSongById(song_id)
    \/ GetPlayHistory

\* Any sequence of calls on one store
SpecStore == StoreInit /\ [][StoreNext]_vars

\* ------------------------------------------- ErrorHandler (error_handler.py)
\* RetryStrategy.__init__ defaults, in seconds
DefaultMaxRetries == 3
DefaultBaseDelay == 1
DefaultMaxDelay == 60
\* The strategies a configuration can set, and the number of leading failures
\* of the operation retried (more than any max_retries + 1: it never succeeds)
RetryStrategies == [max_retries : 0..DefaultMaxRetries,
                    base_delay : {DefaultBaseDelay, 2},
                    max_delay : {4, DefaultMaxDelay}]
MaxFailures == 5

\* RetryStrategy.get_delay
get_delay(strategy, retry_count) ==
    Min(strategy.base_delay * (2 ^ retry_count), strategy.max_delay)

\* A call of retry_with_backoff about to enter its loop with attempt = 0
RetryInit ==
    /\ RestAtInit
    /\ \E strategy \in RetryStrategies, failures \in 0..MaxFailures :
          probe = [kind |-> "retrying", strategy |-> strategy, failures |-> failures,
                   attempt |-> 0, calls |-> 0, delays |-> <<>>, result |-> None]

\* range(strategy.max_retries + 1) has not run out
InLoop == probe.kind = "retrying" /\ probe.attempt <= probe.strategy.max_retries

\* func returns: its value is returned at once
RetryReturn ==
    /\ InLoop
    /\ probe.calls >= probe.failures
    /\ probe' = [probe EXCEPT !.kind = "returned", !.calls = @ + 1, !.result = "value"]
    /\ ProbeOnly

\* func raises with attempts left: sleep get_delay(attempt), next attempt
RetrySleep ==
    /\ InLoop
    /\ probe.calls < probe.failures
    /\ probe.attempt < probe.strategy.max_retries
    /\ probe' = [probe EXCEPT
                    !.calls = @ + 1,
                    !.delays = Append(@, get_delay(probe.strategy, probe.attempt)),
                    !.attempt = @ + 1]
    /\ ProbeOnly

\* func raises on the last attempt: break, raise last_exception
RetryRaise ==
    /\ InLoop
    /\ probe.calls < probe.failures
    /\ probe.attempt >= probe.strategy.max_retries
    /\ probe' = [probe EXCEPT !.kind = "raised", !.calls = @ + 1, !.result = "last_exception"]
    /\ ProbeOnly

RetryNext == RetryReturn \/ RetrySleep \/ RetryRaise

\* One call of retry_with_backoff for every strategy and operation
SpecRetry == RetryInit /\ [][RetryNext]_vars

\* ------------------------------------------ _calculate_hash (cache_manager.py)
\* chunk_size, 8192 bytes in the source, scaled down so that files on both
\* sides of chunk_size * 3 can be enumerated; the longest file explored
ChunkSize == 2
MaxFileLen == 7
Bytes == {0, 1}
Files == SeqsUpTo(Bytes, MaxFileLen)

\* f.seek(offset); f.read(chunk_size): the bytes from offset on, at most
\* chunk_size of them
ReadAt(file, offset) == SubSeq(file, offset + 1, Min(offset + ChunkSize, Len(file)))

\* _calculate_hash: the bytes fed to hash_md5.update, in order. The digest is
\* taken as injective on them
calculate_hash(file) ==
    LET file_size == Len(file)
    IN IF file_size > ChunkSize * 3
       THEN ReadAt(file, 0) \o ReadAt(file, file_size \div 2)
            \o ReadAt(file, file_size - ChunkSize)
       ELSE ReadAt(file, 0)

\* Two downloaded files about to be hashed
HashInit ==
    /\ RestAtInit
    /\ \E first \in Files, second \in Files :
          probe = [kind |-> "files", first |-> first, second |-> second,
                   first_hash |-> <<>>, second_hash |-> <<>>]

\* _download_and_cache hashes each temp file
CalculateHash ==
    /\ probe.kind = "files"
    /\ probe' = [probe EXCEPT !.kind = "hashed",
                              !.first_hash = calculate_hash(probe.first),
                              !.second_hash = calculate_hash(probe.second)]
    /\ ProbeOnly

HashNext == CalculateHash

\* The hashes of every pair of files
SpecHash == HashInit /\ [][HashNext]_vars

\* ================================================================ properties

\* C7: after any sequence of queue operations (add_song with or without
\* position, remove_song, next_song, previous_song, clear, shuffle_all,
\* play-mode changes), 0 <= current_index <= len(songs).
C7_IndexWithinQueue ==
    0 <= queue.current_index /\ queue.current_index <= Len(queue.songs)

\* C8: after any sequence of queue operations every entry of shuffle_history
\* is a valid index (0 <= entry < len(songs)) and the history holds at most
\* len(songs) entries.
C8_HistoryValid ==
    /\ \A k \in 1..Len(queue.shuffle_history) :
           0 <= queue.shuffle_history[k] /\ queue.shuffle_history[k] < Len(queue.songs)
    /\ Len(queue.shuffle_history) <= Len(queue.songs)

\* C9 as stated: in Sequential mode, after N advances from index i on a queue
\* of length L, current = min(i + N, L), and the status is Idle exactly when
\* current = L.
C9_SequentialReachesLen ==
    (probe.kind = "track_ended" /\ queue.play_mode = SEQUENTIAL) =>
        /\ queue.current_index = Min(probe.i + probe.n, Len(queue.songs))
        /\ (status = IDLE <=> queue.current_index = Len(queue.songs))

\* C9 amended: in Sequential mode, after N advances from a valid index i on a
\* queue of length L, current = min(i + N, L - 1) (the index stays on the last
\* track), a next_song call yields the track at the new index or nothing once
\* i + N >= L, and the status is Idle exactly when i + N >= L.
C9_SequentialStopsAtLast ==
    (probe.kind # "off" /\ queue.play_mode = SEQUENTIAL) =>
        /\ queue.current_index = Min(probe.i + probe.n, Len(queue.songs) - 1)
        /\ probe.kind = "track_ended" =>
               (status = IDLE <=> probe.i + probe.n >= Len(queue.songs))
        /\ probe.n > 0 =>
               probe.song = IF probe.i + probe.n >= Len(queue.songs)
                            THEN NoSong
                            ELSE queue.songs[queue.current_index + 1]

\* C9 witness: queue of three, started at 0, three track_ended events: the
\* index is left at 2 and the player is idle.
C9_Witness ==
    /\ probe.kind = "track_ended" /\ queue.play_mode = SEQUENTIAL
    /\ Len(queue.songs) = 3 /\ probe.i = 0 /\ probe.n = 3
    /\ queue.current_index = 2 /\ status = IDLE

\* C10: on a non-empty queue of length L with a valid index i, N consecutive
\* advances leave current = (i + N) mod L in RepeatAll mode and current = i in
\* RepeatOne mode, and each advance yields the track at the resulting index.
C10_RepeatModes ==
    /\ (probe.kind # "off" /\ queue.play_mode = REPEAT_ALL) =>
           /\ queue.current_index = (probe.i + probe.n) % Len(queue.songs)
           /\ probe.n > 0 => probe.song = queue.songs[queue.current_index + 1]
    /\ (probe.kind # "off" /\ queue.play_mode = REPEAT_ONE) =>
           /\ queue.current_index = probe.i
           /\ probe.n > 0 => probe.song = queue.songs[probe.i + 1]

\* C10 witness: RepeatAll wraps around the end of a queue of three.
C10_Witness ==
    /\ probe.kind = "next_song" /\ queue.play_mode = REPEAT_ALL
    /\ Len(queue.songs) = 3 /\ probe.i = 1 /\ probe.n = 4
    /\ queue.current_index = 2 /\ probe.song = queue.songs[3]

\* the advance threads in flight for guild g
InFlight(g) == BagCardinality([a \in {x \in BagToSet(advances) : x.g = g} |-> advances[a]])

\* C1: for any guild, at most one advance (select the next track and start
\* it) is in flight at any moment, however the completion callbacks arrive.
C1_OneAdvanceInFlight == \A g \in Guilds : InFlight(g) <= 1

\* C2: no completion event is lost: the callback of a track that played to
\* its end is never dropped, also when it arrives while an earlier advance is
\* still being processed.
C2_NoCompletionLost ==
    [][\A c \in CallbackTypes : c.cause = "ended" => ~CallbackRefused(c)]_vars

\* C3: no step of the completion callback's thread, nor of a thread it
\* spawns, changes player, queue or in-flight-flag state (such changes are
\* left to the main event loop).
C3_CallbackLeavesState ==
    [][((\E c \in CallbackTypes : CallbackStep(c)) \/ (\E a \in AdvanceTypes : AdvanceStep(a)))
          => UNCHANGED <<queue, status, current_song, is_processing_next>>]_vars

\* what guild g observes of the player: the plugin holds one BotPlayerCore and
\* one flag, so every guild observes the same
GuildView(g) == <<queue, status, current_song, is_processing_next>>

\* every step that belongs to guild g: its commands, its completion
\* callbacks and the threads they spawned
GuildStep(g) ==
    \/ GuildCommandStep(g)
    \/ \E c \in CallbackTypes : c.g = g /\ CallbackStep(c)
    \/ \E a \in AdvanceTypes : a.g = g /\ AdvanceStep(a)

\* C4: no command or completion event of one guild changes the queue, play
\* mode, status, current track or in-flight flag another guild observes.
C4_GuildsIsolated ==
    [][\A g \in Guilds : GuildStep(g) =>
          \A h \in Guilds \ {g} : UNCHANGED GuildView(h)]_vars

\* C5: the completion callback triggered by an accepted skip is never
\* dropped, so the skip advances the queue (once, not zero times).
C5_SkipAdvances ==
    [][\A c \in CallbackTypes : c.cause = "skip" => ~CallbackRefused(c)]_vars

\* C6: once a stop issued in Playing or Paused is done and no callback or
\* advance is left in flight, the status is Idle, there is no current track
\* and the guild's voice client is not playing, until a new play command.
C6_StopLeavesIdle ==
    (last_stop # NoGuild /\ BagSize(callbacks) = 0 /\ BagSize(advances) = 0) =>
        (status = IDLE /\ current_song = NoSong /\ ~voice[last_stop])


\* C11: for every queue state and every play mode, has_next_song returns true
\* if and only if an immediately following next_song yields a track.
C11_HasNextIffYields ==
    /\ has_next_song(queue) => \A r \in next_song(queue) : r.song # NoSong
    /\ ~has_next_song(queue) => \A r \in next_song(queue) : r.song = NoSong

\* C12 as stated: nine tracks, Shuffle, current = 0, empty history: after 8
\* advances every index 1..8 appears exactly once in shuffle_history.
C12_HistoryIsPermutation ==
    (probe.kind = "shuffle" /\ probe.n = 8) =>
        \A x \in 1..8 :
            Cardinality({k \in 1..Len(queue.shuffle_history) :
                             queue.shuffle_history[k] = x}) = 1

\* C12 amended: after each of the N <= 8 advances the history holds N entries;
\* the entry just appended is a valid index, is the current index, differs from
\* the index that was current before the advance (no index twice in a row, the
\* first is not 0) and, when the history already held len \div 2 = 4 entries,
\* from the three entries before it; the advance yields the track at that index.
C12_HistoryAvoidsRecent ==
    probe.kind = "shuffle" =>
        /\ Len(queue.shuffle_history) = probe.n
        /\ probe.n > 0 =>
             LET h == queue.shuffle_history
                 k == probe.n
                 L == Len(queue.songs)
             IN /\ h[k] \in 0..(L - 1)
                /\ h[k] # (IF k = 1 THEN 0 ELSE h[k - 1])
                /\ k - 1 >= L \div 2 => \A j \in 1..RecentCount(L) : h[k] # h[k - j]
                /\ queue.current_index = h[k]
                /\ probe.song = queue.songs[h[k] + 1]

\* C12 witness: eight advances whose history repeats an index (the third
\* choice is the first one again) and holds index 0.
C12_Witness ==
    /\ probe.kind = "shuffle" /\ probe.n = 8
    /\ queue.shuffle_history[3] = queue.shuffle_history[1]
    /\ \E k \in 1..8 : queue.shuffle_history[k] = 0


\* C13: pause issued in Playing sets the status to Paused and pauses the voice
\* transport, so that while the status is Paused no track completes (and no
\* auto-advance follows); resume sets the status back to Playing.
C13_NoCompletionWhilePaused ==
    [][/\ PauseCommand => status' = PAUSED
       /\ ResumeCommand => status' = PLAYING
       /\ status = PAUSED => \A g \in Guilds : ~TrackEnded(g)]_vars

\* C14: on a playback error event the status becomes Error (and an advance is
\* attempted from there).
C14_ErrorEntersError ==
    [][\A g \in Guilds : TrackFailed(g) => status' = ERROR]_vars

\* C15: when starting a track fails because the cache produces no audio file,
\* the status becomes Error (and an advance is attempted once).
C15_NoAudioEntersError ==
    [][\A a \in AdvanceTypes : AdvanceNoAudio(a) => status' = ERROR]_vars


\* the file paths some row of the cache table names
ReferencedFiles == {cache.rows[t].file_path : t \in {u \in CacheTracks : HasRow(cache, u)}}

\* C16: after any sequence of cache operations, for every file path some row
\* references, the file exists on disk if and only if at least one row
\* pointing at it has reference_count > 0.
C16_FileIffReferenced ==
    \A p \in ReferencedFiles :
        p \in cache.files <=> \E t \in RowsAt(cache, p) : cache.rows[t].reference_count > 0

\* C17: for any content hash that appears in two or more rows, exactly one
\* file on disk corresponds to it and the reference count recorded for that
\* file equals the number of rows pointing at it.
C17_OneFilePerHash ==
    \A h \in CacheTracks :
        LET rows == {t \in CacheTracks : HasRow(cache, t) /\ cache.rows[t].audio_hash = h}
            files == {cache.rows[t].file_path : t \in rows} \cap cache.files
        IN Cardinality(rows) >= 2 =>
               /\ Cardinality(files) = 1
               /\ \A p \in files :
                    \E t \in RowsAt(cache, p) :
                        cache.rows[t].reference_count = Cardinality(RowsAt(cache, p))

\* C18: the reference_count of every cache row is >= 0 after any sequence of
\* get and remove operations.
C18_RefcountNonNegative ==
    \A t \in CacheTracks : cache.rows[t].reference_count >= 0

\* every row passes the min-access-interval guard at the next operation
AllPassGuard ==
    \A t \in CacheTracks :
        HasRow(cache, t) => (cache.now + 1) - cache.rows[t].last_accessed > cache.min_access_interval

\* C19: when a store returns (its budget check done), the sum of the sizes of
\* the distinct files the cache holds, the stored file included, is at most
\* max-size, provided the eviction candidates pass the min-access-interval guard.
C19_StoreWithinBudget ==
    [][\A t \in CacheTracks :
          (AllPassGuard /\ CacheStore(t)) => get_total_cache_size(cache)' <= MaxSize]_vars

\* C20: when a store pushes the total over max-size and every entry passes the
\* guard, files are evicted least-recently-accessed first until the total is
\* at most 80% of max-size: afterwards the total is within that mark and no
\* file that was kept had been accessed before a file that was evicted.
C20_EvictsToLowWater ==
    [][\A t \in CacheTracks :
          (/\ AllPassGuard
           /\ get_total_cache_size(cache) + FileSize > MaxSize
           /\ CacheStore(t)) =>
              /\ get_total_cache_size(cache)' <= TargetSize
              /\ \A kept \in cache.files \cap cache.files', gone \in cache.files \ cache.files' :
                   \A k \in RowsAt(cache, kept), g \in RowsAt(cache, gone) :
                       cache.rows[g].last_accessed <= cache.rows[k].last_accessed]_vars


\* C21: eviction never unlinks a hot file: a file on disk whose most recent
\* access, through any track id sharing it, is less than min-access-interval
\* ago is not removed by the eviction a store triggers.
C21_HotFileKept ==
    [][\A t \in CacheTracks :
          CacheStore(t) =>
              \A p \in cache.files \ cache.files' :
                  \A u \in RowsAt(cache, p) :
                      (cache.now + 1) - cache.rows[u].last_accessed >= cache.min_access_interval]_vars


\* what the contract of remove(t) allows for a track with a row: the row of t
\* goes, every other row stays (its reference_count may change), and the file
\* of t is unlinked exactly when no other row names its path
RemovedExactly(t) ==
    LET p == cache.rows[t].file_path
    IN /\ ~HasRow(cache', t)
       /\ \A u \in CacheTracks \ {t} :
            cache'.rows[u] = [cache.rows[u] EXCEPT !.reference_count = cache'.rows[u].reference_count]
       /\ cache'.files = IF RowsAt(cache, p) = {t} THEN cache.files \ {p} ELSE cache.files

\* C22: remove(track-id) of a track with a row deletes exactly that row and
\* unlinks the backing file if and only if no other row references the same
\* file path; for a track without a row it changes neither rows nor files.
C22_RemoveExact ==
    [][\A t \in CacheTracks :
          /\ (CacheRemoveSong(t) \/ CacheRemoveFrom(t)) => RemovedExactly(t)
          /\ CacheRemoveNoRow(t) => (cache'.rows = cache.rows /\ cache'.files = cache.files)]_vars


\* C23: when the download step fails, get returns none and the cache state is
\* unchanged: no row is inserted, updated or deleted and no file is added to
\* or removed from the cache directory (its temp subdirectory included).
C23_FailedDownloadChangesNothing ==
    [][\A t \in CacheTracks :
          (CacheDownloadFailed(t) \/ CacheDownloadUnusable(t)) =>
              /\ probe'.song = NoSong
              /\ cache'.rows = cache.rows
              /\ cache'.files = cache.files
              /\ cache'.temp = cache.temp]_vars

\* C24: after cleanup_orphans returns, every regular file under the cache root
\* other than the store file is referenced by a row and every row's file
\* exists; rows and files that were consistent are untouched, and a sweep
\* repeated at once removes nothing.
C24_SweepLeavesConsistent ==
    [][CacheCleanupOrphans =>
          /\ cache'.temp = {}
          /\ \A p \in cache'.files : RowsAt(cache', p) # {}
          /\ \A t \in CacheTracks : HasRow(cache', t) => cache'.rows[t].file_path \in cache'.files
          /\ \A t \in CacheTracks :
               (HasRow(cache, t) /\ cache.rows[t].file_path \in cache.files) =>
                   (cache'.rows[t] = cache.rows[t] /\ cache.rows[t].file_path \in cache'.files)
          /\ cleanup_orphaned_files(cache').rows = cache'.rows
          /\ cleanup_orphaned_files(cache').files = cache'.files]_vars


\* the loops whose call is running the extractor
Extracting(t) == {l \in Loops : cache.jobs[l].pc = "extracting" /\ cache.jobs[l].track = t}

\* C25: for any URL, at most one extractor invocation runs at a time: of two
\* overlapping get calls for one URL the second waits for the first's outcome.
C25_OneExtractionPerUrl ==
    \A t \in CacheTracks : Cardinality(Extracting(t)) <= 1

\* the loops whose call holds a slot of the semaphore
Downloading == {l \in Loops : cache.jobs[l].pc \in {"extracting", "moved", "sized"}}

\* C26: at most max-concurrent-downloads downloads are in progress at any
\* moment, and every download that waits for a slot eventually obtains one
\* once earlier downloads finish.
C26_BoundedAndEventuallyServed ==
    /\ [](Cardinality(Downloading) <= cache.max_downloads)
    /\ \A l \in Loops :
         (cache.jobs[l].pc \in {"waiting", "woken"}) ~> (cache.jobs[l].pc = "extracting")

\* every call of get_audio_file has returned
AllReturned == \A l \in Loops : cache.jobs[l].pc = "idle"

\* C27: overlapping cache operations take effect as if serialized by one
\* writer lock: once all of them have returned there is no row whose file is
\* missing and no cache file that no row references.
C27_ConsistentOnceReturned ==
    AllReturned =>
        /\ \A t \in CacheTracks : HasRow(cache, t) => cache.rows[t].file_path \in cache.files
        /\ \A p \in cache.files : RowsAt(cache, p) # {}


\* the results list of the search just made, before deduplication
Aggregated == SearchResults(probe.outcomes, probe.plugin_name)

\* lower(title) = lower(title') and lower(artist) = lower(artist')
SameTrack(x, y) == Lower(x.title) = Lower(y.title) /\ Lower(x.artist) = Lower(y.artist)

\* C28: search deduplication collapses two tracks if and only if their
\* lower-cased titles are equal and their lower-cased artists are equal, and the
\* first occurrence of each group in aggregation order is the one kept.
C28_CollapseIffSameTitleAndArtist ==
    probe.kind = "searched" =>
        LET agg == Aggregated
            kept == {j \in 1..Len(agg) : \A i \in 1..(j - 1) : ~SameTrack(agg[i], agg[j])}
            nth(k) == CHOOSE j \in kept : Cardinality({i \in kept : i <= j}) = k
        IN /\ Len(probe.unique) = Cardinality(kept)
           /\ \A k \in 1..Len(probe.unique) : probe.unique[k] = agg[nth(k)]

C30_ErrorIffAllPluginsFailed ==
    (probe.kind = "searched" /\ probe.plugin_name = NoPlugin) =>
        /\ \A p \in Range(SearchPlugins) :
             ~probe.outcomes[p].raised =>
                 \A x \in Range(probe.outcomes[p].tracks) :
                     \E y \in Range(probe.unique) : SameTrack(x, y)
        /\ probe.error <=> \A p \in Range(SearchPlugins) : probe.outcomes[p].raised

\* C31: through every importer entry point that accepts a URL, a URL whose
\* scheme is not https, or whose host is neither an allow-listed domain nor a
\* subdomain of one, is never requested from the network, and the import is
\* rejected.
C31_UnsafeUrlNeverRequested ==
    probe.kind \in {"import_from_url", "import_from_musicfree_backup"} =>
        \A url \in Urls :
            ~is_safe_url(url) =>
                /\ url \notin probe.requests
                /\ (probe.url = url => probe.result = NoPlaylist)

\* C32: importing the document a playlist was exported to yields a playlist
\* equal to the original, in the simple and in the MusicFree format: the same
\* tracks in the same order, a track held twice included, and the same
\* playlist and track metadata.
C32_ImportOfExportIsIdentity ==
    probe.kind = "imported" => probe.imported = probe.playlist

\* C33: save_playlist is atomic. When it fails at any step, the stored
\* header, playlist-to-track rows and track rows are exactly those before the
\* call; when it succeeds, the stored positions of the playlist are 0..n-1 in
\* the playlist's order.
C33_SavePlaylistAtomic ==
    [][probe'.kind = "save_playlist" =>
          IF probe'.result = None
          THEN probe'.db = probe.db
          ELSE LET playlist == probe'.arg
               IN {r \in probe'.db.playlist_songs : r.playlist_id = playlist.id}
                  = {[playlist_id |-> playlist.id, song_id |-> playlist.ids[i],
                      position |-> i - 1] : i \in 1..Len(playlist.ids)}]_vars

\* C33 witness: a save that fails on the second of two tracks sharing one id,
\* on a store that already holds the playlist
C33_Witness ==
    /\ probe.kind = "save_playlist"
    /\ probe.result = None
    /\ Len(probe.arg.ids) = 2
    /\ probe.arg.ids[1] = probe.arg.ids[2]
    /\ probe.arg.created_at # "str"
    /\ probe.db.playlists[probe.arg.id] # NoHeader
    /\ probe.db.playlists[probe.arg.id] # probe.arg.name

\* C40: a playlist stored by save_playlist is loaded back with the same track
\* ids in the same order after any later upserts of its tracks, and a track
\* row written by either upsert path is read back by get_playlist_by_id,
\* _get_song_by_id and get_play_history: every reader accepts the extra text
\* of every writer.
C40_EveryReaderReadsEveryWriter ==
    /\ (probe.kind = "get_playlist_by_id" /\ probe.db.playlists[probe.arg] # NoHeader) =>
          /\ probe.result.loaded
          /\ probe.result.ids = TracksFrom(probe.db, probe.arg, 0)
    /\ (probe.kind = "get_song_by_id" /\ probe.db.songs[probe.arg] # NoSongRow) =>
          probe.result = probe.arg
    /\ probe.kind = "get_play_history" =>
          probe.result = {s \in probe.db.play_history : probe.db.songs[s] # NoSongRow}

\* C34: with the default strategy the retry helper invokes a persistently
\* failing operation at most 3 times in total, waits min(1s * 2^k, 60s) before
\* the retry that follows the (k+1)-th failure, returns the first successful
\* result without further attempts, and otherwise ends by raising the last
\* error.
C34_AtMostThreeAttempts ==
    (/\ probe.kind \in {"retrying", "returned", "raised"}
     /\ probe.strategy = [max_retries |-> DefaultMaxRetries,
                          base_delay |-> DefaultBaseDelay,
                          max_delay |-> DefaultMaxDelay]) =>
        /\ probe.calls <= 3
        /\ \A k \in 0..(Len(probe.delays) - 1) : probe.delays[k + 1] = Min(2 ^ k, 60)
        /\ probe.kind = "returned" => probe.calls = probe.failures + 1
        /\ probe.kind = "raised" => probe.result = "last_exception"

\* C35: in Shuffle mode on a queue of at least 2 tracks, an advance (every
\* outcome of next_song in the state reached) never
\* selects the index that was current before it and, when the history holds
\* at least len/2 entries, never an index among the trailing len/3 entries of
\* the history; the chosen index is appended to the history, which afterwards
\* holds at most len entries.
C35_ShuffleAvoidsCurrentAndRecent ==
    (queue.play_mode = SHUFFLE /\ Len(queue.songs) >= 2) =>
        \A r \in next_song(queue) :
            LET n == Len(queue.songs)
                h == queue.shuffle_history
                chosen == r.queue.current_index
            IN /\ chosen # queue.current_index
               /\ Len(h) >= n \div 2 => chosen \notin Range(LastN(h, n \div 3))
               /\ r.queue.shuffle_history # <<>>
               /\ r.queue.shuffle_history[Len(r.queue.shuffle_history)] = chosen
               /\ Len(r.queue.shuffle_history) <= n

\* the paths of the rows with the bytes of t, a reference count above 0 and
\* their file on disk
SharedPaths(t) ==
    {cache.rows[u].file_path : u \in {v \in find_by_hash(cache, cache.content[t]) :
                                          cache.rows[v].file_path \in cache.files}}

\* The duplicate path of _download_and_cache taken alone: when a miss
\* downloads a file whose content hash matches a row with reference count > 0
\* whose file exists, no file is added, a row with reference count 1 is
\* inserted for the track pointing at the shared path, the rows already there
\* count one more, and that path is returned.
DedupPathSharesFile ==
    [][\A t \in CacheTracks :
          ((CacheDedup(t) \/ CacheStore(t)) /\ SharedPaths(t) # {}) =>
              /\ cache'.temp = cache.temp
              /\ cache'.files = cache.files
              /\ HasRow(cache', t)
              /\ cache'.rows[t].file_path \in SharedPaths(t)
              /\ probe'.song = cache'.rows[t].file_path
              /\ cache'.rows[t].reference_count = 1
              /\ \A u \in RowsAt(cache, cache'.rows[t].file_path) \ {t} :
                    /\ cache'.rows[u].file_path = cache.rows[u].file_path
                    /\ cache'.rows[u].reference_count = cache.rows[u].reference_count + 1]_vars

\* C36: a download whose content hash matches a row with reference count > 0
\* whose file exists shares that file: the temp file is deleted, no file is
\* added, a row for the new track points at the shared path and get returns
\* it; so once two tracks with identical bytes have both been fetched, one
\* cache file exists, its reference count is 2 and both gets returned the
\* same path.
C36_DuplicateSharesFile ==
    \A l, k \in Loops :
        (/\ AllReturned
         /\ l # k
         /\ cache.jobs[l].track \in CacheTracks /\ cache.jobs[k].track \in CacheTracks
         /\ cache.jobs[l].track # cache.jobs[k].track
         /\ cache.content[cache.jobs[l].track] = cache.content[cache.jobs[k].track]
         /\ cache.jobs[l].result # NoSong /\ cache.jobs[k].result # NoSong
         /\ HasRow(cache, cache.jobs[l].track) /\ HasRow(cache, cache.jobs[k].track)) =>
            /\ cache.jobs[l].result = cache.jobs[k].result
            /\ Cardinality(cache.files) = 1
            /\ \E t \in RowsAt(cache, cache.jobs[l].result) : cache.rows[t].reference_count = 2

\* C37: the content hash is computed over the whole file when its size is at
\* most three chunks (24 KiB) and over exactly the three chunk-sized windows
\* at offsets 0, size/2 and size - chunk when it is larger; hence two files of
\* at most three chunks that differ in any byte, bytes after the first chunk
\* included, present different hash inputs.
C37_SmallFilesHashedWhole ==
    probe.kind = "hashed" =>
        /\ probe.first_hash =
              IF Len(probe.first) <= 3 * ChunkSize THEN probe.first
              ELSE SubSeq(probe.first, 1, ChunkSize)
                   \o SubSeq(probe.first, Len(probe.first) \div 2 + 1,
                             Len(probe.first) \div 2 + ChunkSize)
                   \o SubSeq(probe.first, Len(probe.first) - ChunkSize + 1, Len(probe.first))
        /\ (/\ Len(probe.first) <= 3 * ChunkSize
            /\ Len(probe.second) <= 3 * ChunkSize
            /\ probe.first # probe.second) => probe.first_hash # probe.second_hash


\* C38: whenever the player status is Playing and the queue is non-empty, the
\* player's current track is the queue's track at current_index, after any
\* sequence of play commands, auto-advances, skips and playlist loads.
C38_CurrentTrackIsQueueTrack ==
    (status = PLAYING /\ Len(queue.songs) > 0) => current_song = get_current_song(queue)

\* C39: a play command issued while a track is Playing only appends the found
\* track to the end of the queue: it neither stops nor replaces the track
\* being played, changes neither the player's current track nor the queue's
\* current_index, and triggers no advance (no completion callback is started).
C39_PlayWhilePlayingOnlyAppends ==
    [][\A g \in Guilds : \A s \in PluginSongs :
          (status = PLAYING /\ voice[g] /\ PlayCommand(g, s)) =>
              /\ queue' = [queue EXCEPT !.songs = Append(queue.songs, s)]
              /\ UNCHANGED <<status, current_song>>
              /\ UNCHANGED <<voice, callbacks, advances>>]_vars

====
